---- MODULE Spec2Model ----
(***************************************************************************)
(* A model of the mulder fluxmeter (src/src/mulder.c): the cached stepper  *)
(* anchors, the transport context, and the flux / transport / intersect /  *)
(* grammage / whereami entry points, each driving the external transport   *)
(* driver (Pumas) and the external stepper (Turtle).                       *)
(*                                                                         *)
(* Numbers.  A height (m) or an energy (GeV) is a pair <<u, e>> standing   *)
(* for u + e * FLT_EPSILON (FLT_EPSILON = 2^-23), compared                 *)
(* lexicographically, so that the code's comparisons against               *)
(* x +/- FLT_EPSILON and against 1E-04 are carried out exactly.  Flux      *)
(* values, weights and asymmetries are exact fractions <<n, d>>.  Proper   *)
(* time is counted in units of MUON_C_TAU * ln(2), which makes the decay   *)
(* probability exp(-time / MUON_C_TAU) the fraction 2^-time.  The geometry *)
(* is a vertical column (one latitude and longitude), a direction being    *)
(* the elevation of a vertical unit vector (+90 up, -90 down).             *)
(***************************************************************************)
EXTENDS Integers, Sequences, FiniteSets, TLC

\* ------------------------------------------------------------- arithmetic

Abs(x) == IF x < 0 THEN -x ELSE x

RECURSIVE Gcd(_, _)
Gcd(a, b) == IF b = 0 THEN Abs(a) ELSE Gcd(b, a % b)

Reduce(n, d, g) ==
  IF d < 0 THEN <<(-n) \div g, (-d) \div g>> ELSE <<n \div g, d \div g>>

\* The fraction n / d in lowest terms, d > 0.
Frac(n, d) == Reduce(n, d, Gcd(Abs(n), Abs(d)))

FInt(n) == <<n, 1>>

FMulBy(a, b, g1, g2) ==
  Frac((a[1] \div g1) * (b[1] \div g2), (a[2] \div g2) * (b[2] \div g1))

FMul(a, b) == FMulBy(a, b, Gcd(Abs(a[1]), b[2]), Gcd(Abs(b[1]), a[2]))

FAddBy(a, b, g) ==
  Frac(a[1] * (b[2] \div g) + b[1] * (a[2] \div g), (a[2] \div g) * b[2])

FAdd(a, b) == FAddBy(a, b, Gcd(a[2], b[2]))

FNeg(a) == <<-a[1], a[2]>>

FSub(a, b) == FAdd(a, FNeg(b))

\* a / b, for b # 0.
FDiv(a, b) == FMul(a, Frac(b[2], b[1]))

FPos(a) == a[1] > 0

FLess(a, b) == a[1] * b[2] < b[1] * a[2]

FZero == <<0, 1>>

FOne == <<1, 1>>

FHalf == <<1, 2>>

\* Numbers on the FLT_EPSILON grid: <<u, e>> is u + e * FLT_EPSILON.
Num(u) == <<u, 0>>

NLt(a, b) == a[1] < b[1] \/ (a[1] = b[1] /\ a[2] < b[2])

NLe(a, b) == a = b \/ NLt(a, b)

NAdd(a, b) == <<a[1] + b[1], a[2] + b[2]>>

NSub(a, b) == <<a[1] - b[1], a[2] - b[2]>>

\* ------------------------------------------------------------- constants

\* float.h: FLT_EPSILON, one step of the grid.
FLT_EPSILON == <<0, 1>>

\* float.h: DBL_MAX; the model keeps its rank, above every height and energy.
DBL_MAX == <<2000000000, 0>>

MINUS_DBL_MAX == <<-2000000000, 0>>

ZMIN == <<-11000, 0>>

ZMAX == <<120000, 0>>

\* fabs(a - b) > 1E-04: 1E-04 lies between 838 and 839 steps of FLT_EPSILON.
TOLERANCE_STEPS == 839

FarFrom(a, b) == a[1] # b[1] \/ Abs(a[2] - b[2]) >= TOLERANCE_STEPS

MULDER_ANY == 0

MULDER_MUON == 13

MULDER_ANTIMUON == -13

Pids == {MULDER_ANY, MULDER_MUON, MULDER_ANTIMUON}

Modes == {"CSDA", "MIXED", "DETAILED"}

NULL == "NULL"

\* exp(-time / MUON_C_TAU), time in units of MUON_C_TAU * ln(2).
RECURSIVE Pow2(_)
Pow2(n) == IF n = 0 THEN 1 ELSE 2 * Pow2(n - 1)

DecayProbability(time) ==
  IF time >= 0 THEN Frac(1, Pow2(time)) ELSE FInt(Pow2(-time))

\* ------------------------------------------------------ reference fluxes

\* cos((90 - elevation) * deg), for the elevations of the model.
CosTheta(elevation) ==
  CASE elevation = 90 -> FOne
    [] elevation = 30 -> FHalf
    [] elevation = 0 -> FZero
    [] elevation = -30 -> <<-1, 2>>
    [] elevation = -90 -> <<-1, 1>>

\* flux_gccly(cos_theta, kinetic_energy), tabulated from the closed formula
\* at the cosines and (whole GeV) energies of the model, to the nearest
\* fraction with a power of two for denominator.
flux_gccly(cos_theta, kinetic_energy) ==
  LET k == kinetic_energy[1]
  IN CASE cos_theta[1] < 0 -> FZero
       [] cos_theta = FOne /\ k = 0 -> Frac(42, 1)
       [] cos_theta = FOne /\ k = 1 -> Frac(22, 1)
       [] cos_theta = FOne /\ k = 10 -> Frac(9, 8)
       [] cos_theta = FOne /\ k = 100 -> Frac(3, 1024)
       [] cos_theta = FHalf /\ k = 0 -> Frac(4, 1)
       [] cos_theta = FHalf /\ k = 1 -> Frac(3, 1)
       [] cos_theta = FHalf /\ k = 10 -> Frac(1, 2)
       [] cos_theta = FHalf /\ k = 100 -> Frac(13, 4096)
       [] cos_theta = FZero /\ k = 0 -> Frac(17, 1024)
       [] cos_theta = FZero /\ k = 1 -> Frac(1, 64)
       [] cos_theta = FZero /\ k = 10 -> Frac(3, 256)
       [] cos_theta = FZero /\ k = 100 -> Frac(1, 1024)

\* charge_ratio = 1.2766
charge_fraction(pid) ==
  CASE pid = MULDER_MUON -> Frac(10000, 22766)
    [] pid = MULDER_ANTIMUON -> Frac(12766, 22766)
    [] OTHER -> FOne

ZeroFlux == [value |-> FZero, asymmetry |-> FZero]

reference_flux(reference, height, elevation, kinetic_energy) ==
  IF NLe(reference.height_min, height) /\ NLe(height, reference.height_max)
  THEN [value |-> flux_gccly(CosTheta(elevation), kinetic_energy),
        asymmetry |-> FSub(FMul(FInt(2), charge_fraction(MULDER_ANTIMUON)), FOne)]
  ELSE ZeroFlux

default_reference ==
  [flux |-> "reference_flux", table |-> NULL,
   energy_min |-> <<0, 839>>,            \* 1E-04, on the grid
   energy_max |-> <<1000000000, 0>>,     \* 1E+21: above every energy here
   height_min |-> Num(0), height_max |-> Num(0)]

\* A table as mulder_reference_load_table lays it out: three energies a
\* decade apart, two cosines, one height slab, two floats per cell.
Table1 ==
  [n_k |-> 3, n_c |-> 2, n_h |-> 1,
   k_min |-> Num(1), k_max |-> Num(100),
   c_min |-> FZero, c_max |-> FOne,
   h_min |-> Num(0), h_max |-> Num(150),
   data |-> <<3, 2, 2, 1, 1, 0, 12, 9, 6, 4, 2, 1>>]

\* The same body in two height slabs, from 0 m to 200 m.
Table2 ==
  [n_k |-> 3, n_c |-> 2, n_h |-> 2,
   k_min |-> Num(1), k_max |-> Num(100),
   c_min |-> FZero, c_max |-> FOne,
   h_min |-> Num(0), h_max |-> Num(200),
   data |-> <<3, 2, 2, 1, 1, 0, 12, 9, 6, 4, 2, 1,
              3, 2, 2, 1, 1, 0, 12, 9, 6, 4, 2, 1>>]

Tables(id) ==
  CASE id = "Table1" -> Table1
    [] id = "Table2" -> Table2

\* The fields mulder_reference_load_table sets in the API part of a table.
TableReference(id) ==
  [flux |-> "reference_table_flux", table |-> id,
   energy_min |-> Tables(id).k_min, energy_max |-> Tables(id).k_max,
   height_min |-> Tables(id).h_min, height_max |-> Tables(id).h_max]

MINUS_INFINITY == <<-1000000, 1>>

\* The quotient 0 / 0, which no comparison finds smaller or larger than
\* anything.
NaN == <<0, 0>>

\* log10 of an energy: the decades are exact, an energy below 1 GeV is
\* placed at 1E-04, log(0) is -inf and the log of a negative energy is NaN.
Log10(k) ==
  CASE NLt(k, Num(0)) -> NaN
    [] k = Num(0) -> MINUS_INFINITY
    [] NLt(Num(0), k) /\ NLt(k, Num(1)) -> FInt(-4)
    [] k = Num(1) -> FInt(0)
    [] k = Num(10) -> FInt(1)
    [] k = Num(100) -> FInt(2)
    [] k = Num(1000) -> FInt(3)

\* (int)h, for h >= 0.
Floor(h) == h[1] \div h[2]

Linear(g0, g1, h) == FAdd(FMul(g0, FSub(FOne, h)), FMul(g1, h))

\* Lines 1735-1760: the interpolation is linear when a value is not positive,
\* logarithmic otherwise; the logarithmic one is a fraction at a grid point
\* (h = 0) and between equal values.
LogOrLinear(g0, g1, h) ==
  IF (~FPos(g0)) \/ (~FPos(g1)) THEN Linear(g0, g1, h)
  ELSE CASE h = FZero -> g0
         [] g0 = g1 -> g0

\* TableAt, had the cosine been the fastest axis of the body.
TableAtCosineFastest(table, ih, ic, ik, i) ==
  FInt(table.data[2 * ((ih * table.n_k + ik) * table.n_c + ic) + i + 1])

\* data[2 * ((ih * n_c + ic) * n_k + ik) + i]
TableAt(table, ih, ic, ik, i) ==
  FInt(table.data[2 * ((ih * table.n_c + ic) * table.n_k + ik) + i + 1])

\* Lines 1716-1760: channel i, interpolated between the eight cells.
TableFlux(table, i, ik, ic, ih, ik1, ic1, ih1, hk, hc, hh) ==
  LogOrLinear(
    LogOrLinear(Linear(TableAt(table, ih, ic, ik, i),
                       TableAt(table, ih, ic1, ik, i), hc),
                Linear(TableAt(table, ih, ic, ik1, i),
                       TableAt(table, ih, ic1, ik1, i), hc), hk),
    LogOrLinear(Linear(TableAt(table, ih1, ic, ik, i),
                       TableAt(table, ih1, ic1, ik, i), hc),
                Linear(TableAt(table, ih1, ic, ik1, i),
                       TableAt(table, ih1, ic1, ik1, i), hc), hk),
    hh)

\* Lines 1762-1767: the value and the asymmetry of the two channels.
TableResult(flux0, flux1) ==
  IF FPos(FAdd(flux0, flux1))
  THEN [value |-> FAdd(flux0, flux1),
        asymmetry |-> FDiv(FSub(flux0, flux1), FAdd(flux0, flux1))]
  ELSE [value |-> FZero, asymmetry |-> FZero]

Upper(i, n) == IF i < n - 1 THEN i + 1 ELSE n - 1

\* Lines 1700-1767, with the cell (ik, ic, ih) of the point.
TableCell(table, hk0, hc0, hh0, ik, ic, ih) ==
  TableResult(
    TableFlux(table, 0, ik, ic, ih, Upper(ik, table.n_k),
              Upper(ic, table.n_c), Upper(ih, table.n_h),
              FSub(hk0, FInt(ik)), FSub(hc0, FInt(ic)), FSub(hh0, FInt(ih))),
    TableFlux(table, 1, ik, ic, ih, Upper(ik, table.n_k),
              Upper(ic, table.n_c), Upper(ih, table.n_h),
              FSub(hk0, FInt(ik)), FSub(hc0, FInt(ic)), FSub(hh0, FInt(ih))))

\* Lines 1670-1699: the point is rejected outside of the table.
TableLookup(table, height, hk0, hc0, hh0) ==
  IF \/ FLess(hk0, FZero) \/ FLess(FInt(table.n_k - 1), hk0)
     \/ FLess(hc0, FZero) \/ FLess(FInt(table.n_c - 1), hc0)
     \/ /\ table.n_h > 1
        /\ (NLt(height, table.h_min) \/ NLt(table.h_max, height))
  THEN [value |-> FZero, asymmetry |-> FZero]
  ELSE TableCell(table, hk0, hc0, hh0, Floor(hk0), Floor(hc0), Floor(hh0))

\* The axes of a table: the coordinate of x in units of the grid step.
Coordinate(x, min, max, n) ==
  IF x = NaN THEN NaN
  ELSE FDiv(FSub(x, min), FDiv(FSub(max, min), FInt(n - 1)))

\* Lines 1674, 1682 and 1691: the point is outside of the table.
TableRejects(table, height, hk0, hc0) ==
  \/ FLess(hk0, FZero) \/ FLess(FInt(table.n_k - 1), hk0)
  \/ FLess(hc0, FZero) \/ FLess(FInt(table.n_c - 1), hc0)
  \/ /\ table.n_h > 1
     /\ (NLt(height, table.h_min) \/ NLt(table.h_max, height))

\* (int)NaN is undefined: 0 where the conversion gives 0 for a NaN, INT_MIN
\* on x86-64, which stands here as an index far below any table.
CastsOfNaN == {0, -1000000}

\* (int)h
Cast(h) == IF h = NaN THEN CastsOfNaN ELSE {Floor(h)}

\* Lines 1700-1730: the float offsets of f000 .. f111, for i = 0 and 1.
Corners(table, ik, ic, ih) ==
  {2 * ((h * table.n_c + c) * table.n_k + k) + i :
     k \in {ik, Upper(ik, table.n_k)}, c \in {ic, Upper(ic, table.n_c)},
     h \in {ih, Upper(ih, table.n_h)}, i \in {0, 1}}

reference_table_flux(reference, height, elevation, kinetic_energy) ==
  TableLookup(
    Tables(reference.table), height,
    Coordinate(Log10(kinetic_energy), Log10(Tables(reference.table).k_min),
               Log10(Tables(reference.table).k_max),
               Tables(reference.table).n_k),
    Coordinate(CosTheta(elevation), Tables(reference.table).c_min,
               Tables(reference.table).c_max, Tables(reference.table).n_c),
    IF Tables(reference.table).n_h > 1
    THEN Coordinate(FInt(height[1]), FInt(Tables(reference.table).h_min[1]),
                    FInt(Tables(reference.table).h_max[1]),
                    Tables(reference.table).n_h)
    ELSE FZero)

\* reference->flux(reference, height, elevation, kinetic_energy)
ReferenceFlux(reference, height, elevation, kinetic_energy) ==
  IF reference.flux = "reference_flux"
  THEN reference_flux(reference, height, elevation, kinetic_energy)
  ELSE reference_table_flux(reference, height, elevation, kinetic_energy)

References == {default_reference, TableReference("Table1")}

\* ------------------------------------------------------------- the state

VARIABLES
  geometry,   \* struct mulder_geometry: the layers, and the geomagnet pointer
  f,          \* struct fluxmeter: mode, reference, anchors, steppers, flags
  context,    \* struct pumas_context: the driver's configuration
  call,       \* the fluxmeter call in progress (or the last one, once done)
  errors,     \* the messages mulder_error received during that call
  det,        \* the answers the deterministic (CSDA) driver gave so far
  handlers,   \* the libraries' error handlers, and the two recorded ones
  history     \* the library calls made so far, with the handlers they found

vars == <<geometry, f, context, call, errors, det, handlers, history>>

\* The layers of the column, bottom first.  surface: the layer's top at the
\* column (its offset when it has no map, elevation + offset otherwise).
Layer(model, offset, surface, zmax, density) ==
  [model |-> model, offset |-> offset, surface |-> surface, zmax |-> zmax,
   density |-> density]

Geometries ==
  { <<>>,
    << Layer(NULL, Num(100), Num(100), Num(100), 2650) >> }

Geomagnets == {NULL, "IGRF13"}

\* ------------------------------------------------------------- steppers

\* turtle_stepper_create .. add_flat / add_map / add_layer: the surfaces of a
\* stepper at the column, bottom first, one per stepper layer.
LayersSurfaces(g, ztop) ==
  <<ZMIN>> \o [i \in 1..Len(g.layers) |->
                 IF g.layers[i].model = NULL
                 THEN g.layers[i].offset
                 ELSE g.layers[i].surface]
           \o <<ztop, ZMAX>>

OpenskySurfaces(zref) == <<zref, ZMAX>>

\* turtle_stepper_step: index[0], the number of stepper layers whose surface
\* lies at or below the position (0 below the lowest one).
StepperIndex(stepper, height) ==
  Cardinality({i \in 1..Len(stepper) : NLe(stepper[i], height)})

\* update_steppers' rebuild, had it taken the support as it is written.
RebuildSteppersUnordered(fm, g) ==
  LET reference == fm.reference
      zref_min == reference.height_min
      zref_max == reference.height_max
      ztop == IF NLe(fm.zmax, zref_min) THEN zref_min ELSE fm.zmax
      zref == IF NLe(fm.zmax, zref_min) THEN zref_min
              ELSE IF NLe(fm.zmax, zref_max) THEN fm.zmax
              ELSE zref_max
  IN [fm EXCEPT !.zref_min = reference.height_min,
                !.zref_max = reference.height_max,
                !.ztop = ztop,
                !.zref = zref,
                !.layers_stepper = LayersSurfaces(g, ztop),
                !.opensky_stepper = OpenskySurfaces(zref),
                !.builds = fm.builds + 1]

\* update_steppers, after the change detection: the anchors and both steppers.
RebuildSteppers(fm, g) ==
  LET reference == fm.reference
      swap == NLt(reference.height_max, reference.height_min)
      zref_min == IF swap THEN reference.height_max ELSE reference.height_min
      zref_max == IF swap THEN reference.height_min ELSE reference.height_max
      ztop == IF NLe(fm.zmax, zref_min) THEN zref_min ELSE fm.zmax
      zref == IF NLe(fm.zmax, zref_min) THEN zref_min
              ELSE IF NLe(fm.zmax, zref_max) THEN fm.zmax
              ELSE zref_max
  IN [fm EXCEPT !.zref_min = reference.height_min,
                !.zref_max = reference.height_max,
                !.ztop = ztop,
                !.zref = zref,
                !.layers_stepper = LayersSurfaces(g, ztop),
                !.opensky_stepper = OpenskySurfaces(zref),
                !.builds = fm.builds + 1]   \* one destroy + create of both

UpToDate(fm) ==
  /\ fm.zref_min = fm.reference.height_min
  /\ fm.zref_max = fm.reference.height_max

\* update_steppers, had it compared height_min only.
update_steppers_min(fm, g) ==
  IF fm.zref_min = fm.reference.height_min THEN fm ELSE RebuildSteppers(fm, g)

update_steppers(fm, g) == IF UpToDate(fm) THEN fm ELSE RebuildSteppers(fm, g)

\* The largest zmax over the layers, from -DBL_MAX.
RECURSIVE LayersZmax(_, _, _)
LayersZmax(layers, i, zmax) ==
  IF i > Len(layers) THEN zmax
  ELSE LayersZmax(layers, i + 1,
                  IF NLt(zmax, layers[i].zmax) THEN layers[i].zmax ELSE zmax)

\* mulder_fluxmeter_create
mulder_fluxmeter_create(g) ==
  update_steppers(
    [mode |-> "CSDA",
     reference |-> default_reference,
     zmax |-> LayersZmax(g.layers, 1, MINUS_DBL_MAX),
     ztop |-> Num(0),
     zref |-> Num(0),
     zref_min |-> DBL_MAX,
     zref_max |-> MINUS_DBL_MAX,
     layers_stepper |-> NULL,
     opensky_stepper |-> NULL,
     use_external_layer |-> FALSE,
     current_geomagnet |-> NULL,
     use_geomagnet |-> FALSE,
     builds |-> 0], g)


\* ------------------------------------------------------ states and calls

\* struct mulder_state, reduced to the column: position.height,
\* direction.elevation (latitude, longitude and azimuth are constant).
State(pid, height, elevation, energy, weight) ==
  [pid |-> pid, height |-> height, elevation |-> elevation,
   energy |-> energy, weight |-> weight]

\* struct mulder_state state = {0.}
ZeroState == State(MULDER_ANY, Num(0), 0, Num(0), FZero)

\* struct pumas_state inside struct state; direction is the propagation
\* direction, as an elevation.
ZeroS ==
  [charge |-> 0, energy |-> Num(0), weight |-> FZero, time |-> 0,
   height |-> Num(0), direction |-> 0, grammage |-> 0]

\* pumas_context_create, then lines 545-546 of mulder_fluxmeter_create.
InitialContext ==
  [medium |-> NULL, direction |-> "FORWARD", energy_loss |-> "STRAGGLED",
   scattering |-> "DISABLED", event |-> "NONE", limit_energy |-> Num(0)]

\* printf's %g for the energies of the model.
FormatG(x) ==
  CASE x = Num(0) -> "0"
    [] x = Num(-1) -> "-1"

\* printf's %d for the particle identifiers.
FormatD(pid) ==
  CASE pid = MULDER_ANY -> "0"
    [] pid = MULDER_MUON -> "13"
    [] pid = MULDER_ANTIMUON -> "-13"

\* MULDER_ERROR(format, ...): the formatted message, handed to mulder_error.
MULDER_ERROR(log, message) == Append(log, message)

\* turtle_ecef_from_horizontal followed by the reversal of lines 897-901, and
\* lines 1045-1049: the opposite direction, in the column.
Reverse(elevation) == -elevation

\* InitialisedEvent, had the weight of an untagged state been left at 1.
InitialisedEventUnit(f1, g, cx, log, pid, height, elevation, energy, u) ==
  [f |-> [f1 EXCEPT !.current_geomagnet = g.geomagnet,
                    !.use_geomagnet = (g.geomagnet # NULL),
                    !.use_external_layer =
                       NLe(NAdd(f1.ztop, FLT_EPSILON), height)],
   context |-> [cx EXCEPT !.event = "LIMIT_ENERGY"],
   s |-> [charge |-> IF pid = MULDER_ANY
                     THEN (IF u THEN -1 ELSE 1)
                     ELSE (IF pid = MULDER_MUON THEN -1 ELSE 1),
          energy |-> energy,
          weight |-> FOne,
          time |-> 0,
          height |-> height,
          direction |-> Reverse(elevation),
          grammage |-> 0],
   draws |-> IF pid = MULDER_ANY THEN <<u>> ELSE <<>>,
   errors |-> log]

\* Lines 864-903 of init_event, the steppers being up to date.
\* u: prng->uniform01(prng) <= 0.5; draws: the numbers taken from the
\* fluxmeter's prng for the charge.
InitialisedEvent(f1, g, cx, log, pid, height, elevation, energy, u) ==
  [f |-> [f1 EXCEPT !.current_geomagnet = g.geomagnet,
                    !.use_geomagnet = (g.geomagnet # NULL),
                    !.use_external_layer =
                       NLe(NAdd(f1.ztop, FLT_EPSILON), height)],
   context |-> [cx EXCEPT !.event = "LIMIT_ENERGY"],
   s |-> [charge |-> IF pid = MULDER_ANY
                     THEN (IF u THEN -1 ELSE 1)
                     ELSE (IF pid = MULDER_MUON THEN -1 ELSE 1),
          energy |-> energy,
          weight |-> IF pid = MULDER_ANY THEN FInt(2) ELSE FOne,
          time |-> 0,
          height |-> height,
          direction |-> Reverse(elevation),
          grammage |-> 0],
   draws |-> IF pid = MULDER_ANY THEN <<u>> ELSE <<>>,
   errors |-> log]

\* init_event, had it rejected the negative energies only.
init_event_strict(fm, g, cx, log, pid, height, elevation, energy, u) ==
  IF NLt(energy, Num(0))
  THEN [f |-> fm, context |-> cx, s |-> ZeroS, draws |-> <<>>,
        errors |-> MULDER_ERROR(log,
                     "bad kinetic energy (" \o FormatG(energy) \o ")")]
  ELSE InitialisedEvent(update_steppers(fm, g), g, cx, log, pid, height,
                        elevation, energy, u)

init_event(fm, g, cx, log, pid, height, elevation, energy, u) ==
  IF NLe(energy, Num(0))
  THEN [f |-> fm, context |-> cx, s |-> ZeroS, draws |-> <<>>,
        errors |-> MULDER_ERROR(log,
                     "bad kinetic energy (" \o FormatG(energy) \o ")")]
  ELSE InitialisedEvent(update_steppers(fm, g), g, cx, log, pid, height,
                        elevation, energy, u)

\* TaggedFlux, had it kept the reference's asymmetry for a tagged state.
TaggedFluxKeepsAsymmetry(result, pid, weight) ==
  IF pid # MULDER_ANY
  THEN [value |-> FMul(FMul(result.value,
                         FMul(FHalf, FAdd(FOne,
                           FMul(FInt(IF pid = MULDER_MUON THEN -1 ELSE 1),
                                result.asymmetry)))), weight),
        asymmetry |-> result.asymmetry]
  ELSE [value |-> FMul(result.value, weight),
        asymmetry |-> result.asymmetry]

\* Lines 797-804 of mulder_state_flux, result being the reference's sample.
TaggedFlux(result, pid, weight) ==
  IF pid # MULDER_ANY
  THEN [value |-> FMul(FMul(result.value,
                         FMul(FHalf, FAdd(FOne,
                           FMul(FInt(IF pid = MULDER_MUON THEN -1 ELSE 1),
                                result.asymmetry)))), weight),
        asymmetry |-> FInt(IF pid = MULDER_MUON THEN -1 ELSE 1)]
  ELSE [value |-> FMul(result.value, weight),
        asymmetry |-> result.asymmetry]

mulder_state_flux(state, reference) ==
  TaggedFlux(ReferenceFlux(reference, state.height, state.elevation,
                           state.energy), state.pid, state.weight)

\* pumas_physics_property_stopping_power(physics, PUMAS_MODE_CSDA, Air, ...):
\* positive and increasing over the energies of the model, null below them.
StoppingPower(energy) ==
  CASE energy[1] <= 0 -> FZero
    [] energy[1] = 1 -> FInt(4)
    [] energy[1] = 10 -> FInt(5)
    [] OTHER -> FInt(8)

\* ------------------------------------------------- locators and driver

\* struct pumas_medium *: layers_media + index, &atmosphere_medium, or NULL.
LayerMedium(i) == [kind |-> "layer", index |-> i]
AtmosphereMedium == [kind |-> "atmosphere", index |-> -1]
NoMedium == [kind |-> "NULL", index |-> -1]

\* layers_geometry, had the slab above ztop been atmosphere for every call.
layers_geometry_open(fm, g, height) ==
  LET index == StepperIndex(fm.layers_stepper, height)
      size == Len(g.layers)
  IN IF index >= 1 /\ index <= size THEN LayerMedium(index - 1)
     ELSE IF index = size + 1 THEN AtmosphereMedium
     ELSE IF index = size + 2 THEN AtmosphereMedium
     ELSE NoMedium

\* layers_geometry, had the slab above ztop been outside for every call.
layers_geometry_closed(fm, g, height) ==
  LET index == StepperIndex(fm.layers_stepper, height)
      size == Len(g.layers)
  IN IF index >= 1 /\ index <= size THEN LayerMedium(index - 1)
     ELSE IF index = size + 1 THEN AtmosphereMedium
     ELSE NoMedium

\* layers_geometry: the medium at a height.
layers_geometry(fm, g, height) ==
  LET index == StepperIndex(fm.layers_stepper, height)
      size == Len(g.layers)
  IN IF index >= 1 /\ index <= size THEN LayerMedium(index - 1)
     ELSE IF index = size + 1 THEN AtmosphereMedium
     ELSE IF fm.use_external_layer /\ index = size + 2 THEN AtmosphereMedium
     ELSE NoMedium

\* opensky_geometry: the medium at a height.
opensky_geometry(fm, g, height) ==
  LET index == StepperIndex(fm.opensky_stepper, height)
  IN IF index = 1 THEN AtmosphereMedium ELSE NoMedium

\* context->medium(context, state, &medium, NULL)
Locate(cx, fm, g, height) ==
  IF cx.medium = "layers_geometry" THEN layers_geometry(fm, g, height)
  ELSE opensky_geometry(fm, g, height)

ContextStepper(cx, fm) ==
  IF cx.medium = "layers_geometry" THEN fm.layers_stepper
  ELSE fm.opensky_stepper

\* The driver moves along the propagation direction when forward, against it
\* when backward.
GoesUp(cx, s) ==
  IF cx.direction = "FORWARD" THEN s.direction > 0 ELSE s.direction < 0

Minimum(S) == CHOOSE x \in S : \A y \in S : NLe(x, y)
Maximum(S) == CHOOSE x \in S : \A y \in S : NLe(y, x)

\* The height just across the next surface of the stepper (a surface belongs
\* to the side above it), or the height itself when no surface is left.
Across(stepper, height, up) ==
  LET above == {stepper[i] : i \in 1..Len(stepper)} \ {z \in {stepper[i] : i \in 1..Len(stepper)} : NLe(z, height)}
      below == {z \in {stepper[i] : i \in 1..Len(stepper)} : NLe(z, height)}
  IN IF up
     THEN (IF above = {} THEN height ELSE Minimum(above))
     ELSE (IF below = {} THEN height
           ELSE NSub(Maximum(below), FLT_EPSILON))

\* Where a track that stops at no boundary leaves the geometry (medium NULL).
RECURSIVE LeaveAt(_, _, _, _, _)
LeaveAt(cx, fm, g, height, up) ==
  IF Locate(cx, fm, g, height) = NoMedium THEN height
  ELSE LET next == Across(ContextStepper(cx, fm), height, up)
       IN IF next = height THEN height
          ELSE LeaveAt(cx, fm, g, next, up)

\* The energies the driver moves between: a decade up (backward) or down
\* (forward), the lowest one going to just above 1E-04 GeV.
Gain(energy) ==
  CASE energy = Num(1) -> Num(10)
    [] energy = Num(10) -> Num(100)
    [] OTHER -> energy

Lose(energy) ==
  CASE energy = Num(100) -> Num(10)
    [] energy = Num(10) -> Num(1)
    [] energy = Num(1) -> <<0, 840>>
    [] OTHER -> energy

\* What pumas_context_transport reports: its return code and event, and the
\* state it leaves.
Outcome(rc, event, height, energy, time, weight) ==
  [rc |-> rc, event |-> event, height |-> height, energy |-> energy,
   time |-> time, weight |-> weight]

DriverFailure(s) ==
  Outcome("FAILURE", "NONE", s.height, s.energy, s.time, s.weight)

\* The distances, in FLT_EPSILON, by which a track may miss the surface it
\* stops at: none, within 1E-04 m, and beyond it.
Misses == {<<0, 0>>, <<0, TOLERANCE_STEPS - 1>>, <<0, TOLERANCE_STEPS>>}

\* DriverOutcomes, had the driver also reported the energy limit before the
\* energy reached it.
DriverOutcomesEarlyLimit(cx, fm, g, s) ==
  LET leave == LeaveAt(cx, fm, g, s.height, GoesUp(cx, s))
      backward == cx.direction = "BACKWARD"
      limited == IF backward THEN NLt(s.energy, cx.limit_energy)
                 ELSE NLt(cx.limit_energy, s.energy)
  IN {DriverFailure(s)}
     \cup {Outcome("SUCCESS", "MEDIUM", NAdd(leave, miss), s.energy, s.time,
                   s.weight) : miss \in Misses}
     \cup (IF limited
           THEN {Outcome("SUCCESS", "LIMIT_ENERGY", s.height,
                         s.energy, s.time, s.weight)}
           ELSE {})

\* pumas_context_transport with the energy-limit event only: the track runs
\* until it leaves the geometry or reaches context->limit.energy.
DriverOutcomes(cx, fm, g, s) ==
  LET leave == LeaveAt(cx, fm, g, s.height, GoesUp(cx, s))
      backward == cx.direction = "BACKWARD"
      energy == IF backward THEN Gain(s.energy) ELSE Lose(s.energy)
      inside == IF backward THEN NLt(energy, cx.limit_energy)
                ELSE NLt(cx.limit_energy, energy)
      limited == IF backward THEN NLt(s.energy, cx.limit_energy)
                 ELSE NLt(cx.limit_energy, s.energy)
  IN {DriverFailure(s)}
     \cup {Outcome("SUCCESS", "MEDIUM", NAdd(leave, miss), s.energy, s.time,
                   s.weight) : miss \in Misses}
     \cup (IF inside /\ energy # s.energy
           THEN {Outcome("SUCCESS", "MEDIUM", leave, energy, s.time + 1,
                         IF backward
                         THEN FMul(s.weight, FDiv(StoppingPower(energy),
                                                  StoppingPower(s.energy)))
                         ELSE s.weight)}
           ELSE {})
     \cup (IF limited
           THEN {Outcome("SUCCESS", "LIMIT_ENERGY", s.height,
                         cx.limit_energy, s.time, s.weight)}
           ELSE {})

\* pumas_error: the driver's error handler, redirected by mulder_initialise.
pumas_error(log, message) == Append(log, message)

\* --------------------------------------------------------- transport_event

\* A call in progress: the locals of the API function and of transport_event,
\* with what the call did so far (driver runs, phases, samples, abandonments).
IdleCall ==
  [op |-> "none", pc |-> "idle", initial |-> ZeroState, s0 |-> ZeroS,
   position |-> Num(0), s |-> ZeroS, t0 |-> 0, e0 |-> Num(0),
   k |-> 0, r |-> <<>>, state |-> ZeroState, flux |-> ZeroFlux,
   runs |-> <<>>, trace |-> <<>>, sampled |-> <<>>, abandoned |-> <<>>,
   draws |-> <<>>, cells |-> {},
   starts |-> <<>>, ascent |-> <<>>,
   stale |-> FALSE, binned |-> FALSE, bins |-> <<>>, last_grammage |-> 0,
   total |-> 0, layer |-> -1]

\* A machine: the call, the driver's context and the error log it acts on.
Machine(c, cx, log) == [c |-> c, cx |-> cx, log |-> log]

Done(m) ==
  [m EXCEPT !.c.pc = "done", !.c.trace = Append(@, "DONE")]

\* Returned, had flux kept the transported pid of an untagged state (no
\* state.pid = MULDER_ANY at line 751).
ReturnedTagged(m, fm, g, state) ==
  LET c == m.c
      sample == [m EXCEPT !.c.pc = "sample", !.c.state = state]
      zero == Done([m EXCEPT !.c.flux = ZeroFlux])
  IN IF c.op = "transport"
     THEN Done([m EXCEPT !.c.state =
                  IF c.initial.pid = MULDER_ANY /\ fm.mode = "CSDA"
                  THEN [state EXCEPT !.pid = MULDER_ANY]
                  ELSE state])
     ELSE IF c.initial.pid = MULDER_ANY /\ g.geomagnet # NULL THEN sample
          ELSE IF ~FPos(state.weight) THEN zero ELSE sample

\* mulder_fluxmeter_flux and mulder_fluxmeter_transport, once transport_event
\* has returned state.
Returned(m, fm, g, state) ==
  LET c == m.c
      sample == [m EXCEPT !.c.pc = "sample", !.c.state = state]
      zero == Done([m EXCEPT !.c.flux = ZeroFlux])
  IN IF c.op = "transport"
     THEN Done([m EXCEPT !.c.state =
                  IF c.initial.pid = MULDER_ANY /\ fm.mode = "CSDA"
                  THEN [state EXCEPT !.pid = MULDER_ANY]
                  ELSE state])
     ELSE IF c.initial.pid = MULDER_ANY
          THEN IF g.geomagnet = NULL
               THEN IF ~FPos(state.weight) THEN zero
                    ELSE [m EXCEPT !.c.pc = "sample",
                                   !.c.state = [state EXCEPT
                                                  !.pid = MULDER_ANY]]
               ELSE sample
          ELSE IF ~FPos(state.weight) THEN zero ELSE sample

\* Abandon, had it reported the abandonment to mulder_error.
AbandonLoudly(m, fm, g, kind) ==
  Returned([m EXCEPT !.c.abandoned = Append(@, kind),
                     !.log = MULDER_ERROR(@, kind)], fm, g, ZeroState)

\* struct mulder_state state = {0.}; return state;
Abandon(m, fm, g, kind) ==
  Returned([m EXCEPT !.c.abandoned = Append(@, kind)], fm, g, ZeroState)

\* Lines 1043-1063: the state at the reference height.
Finish(m, fm, g) ==
  LET s == m.c.s
  IN Returned(m, fm, g,
       State(IF s.charge < 0 THEN MULDER_MUON ELSE MULDER_ANTIMUON,
             m.c.position, Reverse(s.direction), s.energy,
             FMul(DecayProbability(s.time), s.weight)))

\* AfterAscent, had it compared the height with height_max itself.
AfterAscentExact(m, fm, g) ==
  IF NLt(fm.reference.height_max, m.c.position)
  THEN [m EXCEPT !.c.pc = "forward",
                 !.c.trace = Append(@, "CSDA_FORWARD"),
                 !.c.t0 = m.c.s.time,
                 !.c.e0 = m.c.s.energy,
                 !.c.s.time = 0,
                 !.cx.energy_loss = "CSDA",
                 !.cx.scattering = "DISABLED",
                 !.cx.medium = "opensky_geometry",
                 !.cx.direction = "FORWARD",
                 !.cx.limit_energy = fm.reference.energy_min]
  ELSE Finish(m, fm, g)

\* Lines 992-1003: the forward step is set up when the height is above the
\* reference's.
AfterAscent(m, fm, g) ==
  IF NLt(NAdd(fm.reference.height_max, FLT_EPSILON), m.c.position)
  THEN [m EXCEPT !.c.pc = "forward",
                 !.c.trace = Append(@, "CSDA_FORWARD"),
                 !.c.t0 = m.c.s.time,
                 !.c.e0 = m.c.s.energy,
                 !.c.s.time = 0,
                 !.cx.energy_loss = "CSDA",
                 !.cx.scattering = "DISABLED",
                 !.cx.medium = "opensky_geometry",
                 !.cx.direction = "FORWARD",
                 !.cx.limit_energy = fm.reference.energy_min]
  ELSE Finish(m, fm, g)

\* BackwardContext, had Detailed mode kept reference.energy_max as the limit
\* of every regime.
BackwardContextOneLimit(cx, fm, s) ==
  LET regime ==
        IF fm.mode = "CSDA"
        THEN [cx EXCEPT !.limit_energy = fm.reference.energy_max,
                        !.energy_loss = "CSDA", !.scattering = "DISABLED"]
        ELSE IF fm.mode = "MIXED"
        THEN [cx EXCEPT !.limit_energy = fm.reference.energy_max,
                        !.energy_loss = "MIXED", !.scattering = "DISABLED"]
        ELSE IF NLe(s.energy, NSub(Num(10), FLT_EPSILON))
        THEN [cx EXCEPT !.energy_loss = "STRAGGLED", !.scattering = "MIXED",
                        !.limit_energy = fm.reference.energy_max]
        ELSE IF NLe(s.energy, NSub(Num(100), FLT_EPSILON))
        THEN [cx EXCEPT !.energy_loss = "MIXED", !.scattering = "MIXED",
                        !.limit_energy = fm.reference.energy_max]
        ELSE [cx EXCEPT !.limit_energy = fm.reference.energy_max,
                        !.energy_loss = "MIXED", !.scattering = "DISABLED"]
  IN [regime EXCEPT !.medium = "layers_geometry", !.direction = "BACKWARD"]

\* Lines 913-941: the context of the backward transport.
BackwardContext(cx, fm, s) ==
  LET regime ==
        IF fm.mode = "CSDA"
        THEN [cx EXCEPT !.limit_energy = fm.reference.energy_max,
                        !.energy_loss = "CSDA", !.scattering = "DISABLED"]
        ELSE IF fm.mode = "MIXED"
        THEN [cx EXCEPT !.limit_energy = fm.reference.energy_max,
                        !.energy_loss = "MIXED", !.scattering = "DISABLED"]
        ELSE IF NLe(s.energy, NSub(Num(10), FLT_EPSILON))
        THEN [cx EXCEPT !.energy_loss = "STRAGGLED", !.scattering = "MIXED",
                        !.limit_energy = Num(10)]
        ELSE IF NLe(s.energy, NSub(Num(100), FLT_EPSILON))
        THEN [cx EXCEPT !.energy_loss = "MIXED", !.scattering = "MIXED",
                        !.limit_energy = Num(100)]
        ELSE [cx EXCEPT !.limit_energy = fm.reference.energy_max,
                        !.energy_loss = "MIXED", !.scattering = "DISABLED"]
  IN [regime EXCEPT !.medium = "layers_geometry", !.direction = "BACKWARD"]

\* transport_event(f, initial.position, s), up to its first driver run.
transport_event(m, fm, g, s) ==
  LET m1 == [m EXCEPT !.c.position = m.c.initial.height, !.c.s = s,
                      !.c.starts = Append(@, s), !.c.ascent = <<>>]
  IN IF NLt(m1.c.position, NSub(fm.ztop, FLT_EPSILON))
     THEN [m1 EXCEPT !.c.pc = "ascend",
                     !.c.trace = Append(@, "ASCEND_BACKWARD"),
                     !.cx = BackwardContext(m.cx, fm, s)]
     ELSE AfterAscent(m1, fm, g)

\* AfterBackwardRun, had the loop re-entered with the regime of 10 to 100 GeV
\* whatever the energy it stopped at.
AfterBackwardRunSameRegime(m, fm, g, o) ==
  LET s == [m.c.s EXCEPT !.height = o.height, !.energy = o.energy,
                         !.time = o.time, !.weight = o.weight]
      m1 == [m EXCEPT !.c.s = s, !.c.runs = Append(@, m.cx),
                      !.c.ascent = Append(@, m.cx)]
  IN IF o.rc # "SUCCESS"
     THEN Abandon([m1 EXCEPT !.log = pumas_error(@, "pumas error")],
                  fm, g, "driver failure")
     ELSE IF fm.mode = "DETAILED" /\ o.event = "LIMIT_ENERGY"
     THEN IF NLe(NSub(fm.reference.energy_max, FLT_EPSILON), s.energy)
          THEN Abandon(m1, fm, g, "energy limit")
          ELSE [m1 EXCEPT !.cx.energy_loss = "MIXED",
                          !.cx.scattering = "MIXED",
                          !.cx.limit_energy = Num(100)]
     ELSE IF o.event # "MEDIUM"
     THEN Abandon(m1, fm, g, "event")
     ELSE IF FarFrom(s.height, fm.ztop)
     THEN Abandon([m1 EXCEPT !.c.position = s.height], fm, g, "height ztop")
     ELSE AfterAscent([m1 EXCEPT !.c.position = s.height], fm, g)

\* Lines 945-989: what follows one driver run of the backward loop.
AfterBackwardRun(m, fm, g, o) ==
  LET s == [m.c.s EXCEPT !.height = o.height, !.energy = o.energy,
                         !.time = o.time, !.weight = o.weight]
      m1 == [m EXCEPT !.c.s = s, !.c.runs = Append(@, m.cx),
                      !.c.ascent = Append(@, m.cx)]
  IN IF o.rc # "SUCCESS"
     THEN Abandon([m1 EXCEPT !.log = pumas_error(@, "pumas error")],
                  fm, g, "driver failure")
     ELSE IF fm.mode = "DETAILED" /\ o.event = "LIMIT_ENERGY"
     THEN IF NLe(NSub(fm.reference.energy_max, FLT_EPSILON), s.energy)
          THEN Abandon(m1, fm, g, "energy limit")
          ELSE IF NLe(NSub(Num(100), FLT_EPSILON), s.energy)
          THEN [m1 EXCEPT !.cx.energy_loss = "MIXED",
                          !.cx.scattering = "DISABLED",
                          !.cx.limit_energy = fm.reference.energy_max]
          ELSE [m1 EXCEPT !.cx.energy_loss = "MIXED",
                          !.cx.scattering = "MIXED",
                          !.cx.limit_energy = Num(100)]
     ELSE IF o.event # "MEDIUM"
     THEN Abandon(m1, fm, g, "event")
     ELSE IF FarFrom(s.height, fm.ztop)
     THEN Abandon([m1 EXCEPT !.c.position = s.height], fm, g, "height ztop")
     ELSE AfterAscent([m1 EXCEPT !.c.position = s.height], fm, g)

\* AfterForwardRun, had it weighted the step by dedx0 / dedx1.
AfterForwardRunInverse(m, fm, g, o) ==
  LET s == [m.c.s EXCEPT !.height = o.height, !.energy = o.energy,
                         !.time = o.time, !.weight = o.weight]
      m1 == [m EXCEPT !.c.s = s, !.c.runs = Append(@, m.cx)]
      dedx0 == StoppingPower(m.c.e0)
      dedx1 == StoppingPower(s.energy)
  IN IF o.rc # "SUCCESS"
     THEN Abandon([m1 EXCEPT !.log = pumas_error(@, "pumas error")],
                  fm, g, "driver failure")
     ELSE IF o.event # "MEDIUM"
     THEN Abandon(m1, fm, g, "event")
     ELSE IF FarFrom(s.height, fm.zref)
     THEN Abandon([m1 EXCEPT !.c.position = s.height], fm, g, "height zref")
     ELSE IF (~FPos(dedx0)) \/ (~FPos(dedx1))
     THEN Abandon([m1 EXCEPT !.c.position = fm.zref,
                             !.c.s.time = m.c.t0 - s.time],
                  fm, g, "stopping power")
     ELSE Finish([m1 EXCEPT !.c.position = fm.zref,
                            !.c.s.time = m.c.t0 - s.time,
                            !.c.s.weight = FMul(s.weight,
                                                FDiv(dedx0, dedx1))],
                 fm, g)

\* Lines 1006-1040: what follows the driver run of the forward step.
AfterForwardRun(m, fm, g, o) ==
  LET s == [m.c.s EXCEPT !.height = o.height, !.energy = o.energy,
                         !.time = o.time, !.weight = o.weight]
      m1 == [m EXCEPT !.c.s = s, !.c.runs = Append(@, m.cx)]
      dedx0 == StoppingPower(m.c.e0)
      dedx1 == StoppingPower(s.energy)
  IN IF o.rc # "SUCCESS"
     THEN Abandon([m1 EXCEPT !.log = pumas_error(@, "pumas error")],
                  fm, g, "driver failure")
     ELSE IF o.event # "MEDIUM"
     THEN Abandon(m1, fm, g, "event")
     ELSE IF FarFrom(s.height, fm.zref)
     THEN Abandon([m1 EXCEPT !.c.position = s.height], fm, g, "height zref")
     ELSE IF (~FPos(dedx0)) \/ (~FPos(dedx1))
     THEN Abandon([m1 EXCEPT !.c.position = fm.zref,
                             !.c.s.time = m.c.t0 - s.time],
                  fm, g, "stopping power")
     ELSE Finish([m1 EXCEPT !.c.position = fm.zref,
                            !.c.s.time = m.c.t0 - s.time,
                            !.c.s.weight = FMul(s.weight,
                                                FDiv(dedx1, dedx0))],
                 fm, g)

\* ------------------------------------------------------------ the calls

Heights == {Num(0), <<100, -1>>, Num(125), <<150, 1>>, <<150, 2>>, Num(200)}
Elevations == {90, -90}

\* The observation states handed to flux and transport: every tag at every
\* height and at two heights for every positive energy, looking up; looking
\* down; and the energies that are not positive.
Observations ==
  {State(pid, height, 90, Num(1), FOne) : pid \in Pids, height \in Heights}
  \cup {State(pid, height, 90, energy, FOne) :
          pid \in Pids, height \in {Num(0), Num(200)},
          energy \in {Num(10), Num(100)}}
  \cup {State(pid, height, -90, Num(1), FOne) :
          pid \in Pids, height \in {Num(0), Num(200)}}
  \cup {State(pid, height, 90, energy, FOne) :
          pid \in Pids, height \in {Num(0), Num(200)},
          energy \in {Num(-1), Num(0)}}

\* The answers of the driver are a function of its input when nothing in it
\* is random: CSDA without a geomagnetic field.
NoDet ==
  [valid |-> FALSE, key |-> ZeroState, bwd |-> <<>>, fwd |-> <<>>,
   flux |-> <<>>, transport |-> <<>>]

Deterministic(fm, g) == fm.mode = "CSDA" /\ g.geomagnet = NULL

Keyed(d, fm, g, initial) ==
  IF ~Deterministic(fm, g) THEN NoDet
  ELSE IF d.valid /\ d.key = initial THEN d
  ELSE [NoDet EXCEPT !.valid = TRUE, !.key = initial]

Answers(known, all) == IF known # <<>> THEN {known[1]} ELSE all

Recorded(d, c) ==
  IF (~d.valid) \/ c.pc # "done" THEN d
  ELSE IF c.op = "flux" THEN [d EXCEPT !.flux = <<c.flux>>]
  ELSE IF c.op = "transport" THEN [d EXCEPT !.transport = <<c.state>>]
  ELSE d

\* Between two calls.  A call on the observation of the call that has just
\* returned may follow it at once: the driver then answers as it did.
Idle == call.pc = "idle"

Again(initial) == call.pc = "done" /\ det.valid /\ det.key = initial

\* The state a step of a call leaves: the fluxmeter, and the machine.
Step(fm, m, d) ==
  /\ f' = fm
  /\ context' = m.cx
  /\ errors' = m.log
  /\ call' = m.c
  /\ det' = Recorded(d, m.c)
  /\ UNCHANGED <<geometry, handlers, history>>

Entered(op, initial, stale, s0) ==
  [IdleCall EXCEPT !.op = op, !.initial = initial, !.trace = <<"INIT">>,
                   !.s0 = s0, !.stale = stale]

\* Lines 738-785 of mulder_fluxmeter_flux, up to the first driver run; e is
\* what init_event returned.
FluxEntered(initial, g, stale, e, d) ==
  IF ~FPos(e.s.weight)
  THEN Step(e.f, Done(Machine(Entered("flux", initial, stale, e.s),
                              e.context, e.errors)), NoDet)
  ELSE Step(e.f,
            transport_event(Machine(Entered("flux", initial, stale, e.s),
                                    e.context, e.errors), e.f, g,
                            [e.s EXCEPT !.charge =
                               IF initial.pid = MULDER_ANTIMUON
                               THEN 1 ELSE -1]),
            Keyed(d, e.f, g, initial))

\* mulder_fluxmeter_flux, up to its first driver run.
FluxCall(initial) ==
  /\ Idle \/ Again(initial)
  /\ FluxEntered(initial, geometry, ~UpToDate(f),
                 init_event([f EXCEPT !.builds = 0], geometry, context, <<>>,
                            MULDER_MUON, initial.height, initial.elevation,
                            initial.energy, TRUE), det)

\* Lines 825-843 of mulder_fluxmeter_transport, up to the first driver run;
\* e is what init_event returned.
TransportEntered(initial, g, stale, e, d) ==
  IF ~FPos(e.s.weight)
  THEN Step(e.f, Done(Machine([Entered("transport", initial, stale, ZeroS)
                                 EXCEPT !.draws = e.draws],
                              e.context, e.errors)), NoDet)
  ELSE Step(e.f,
            transport_event(Machine([Entered("transport", initial, stale,
                                             e.s)
                                       EXCEPT !.draws = e.draws],
                                    e.context, e.errors), e.f, g, e.s),
            Keyed(d, e.f, g, initial))

\* mulder_fluxmeter_transport, up to its first driver run.
TransportCall(initial) ==
  /\ Idle \/ Again(initial)
  /\ IF /\ initial.pid = MULDER_ANY
        /\ f.mode = "CSDA"
        /\ geometry.geomagnet # NULL
     THEN Step([f EXCEPT !.builds = 0],
               Done(Machine(Entered("transport", initial, ~UpToDate(f),
                                    ZeroS),
                            context,
                            MULDER_ERROR(<<>>, "bad pid ("
                                         \o FormatD(initial.pid) \o ")"))),
               NoDet)
     ELSE \E u \in (IF initial.pid = MULDER_ANY /\ f.mode # "CSDA"
                    THEN BOOLEAN ELSE {TRUE}) :
            TransportEntered(initial, geometry, ~UpToDate(f),
              init_event([f EXCEPT !.builds = 0], geometry, context, <<>>,
                         IF initial.pid = MULDER_ANY /\ f.mode = "CSDA"
                         THEN MULDER_MUON ELSE initial.pid,
                         initial.height, initial.elevation, initial.energy,
                         u), det)

\* One pumas_context_transport of the backward loop, and what follows it.
AscendRun ==
  /\ call.pc = "ascend"
  /\ \E o \in Answers(det.bwd, DriverOutcomes(context, f, geometry, call.s)) :
       Step(f, AfterBackwardRun(Machine(call, context, errors), f,
                                geometry, o),
            IF det.valid THEN [det EXCEPT !.bwd = <<o>>] ELSE det)

\* The pumas_context_transport of the forward step, and what follows it.
ForwardRun ==
  /\ call.pc = "forward"
  /\ \E o \in Answers(det.fwd, DriverOutcomes(context, f, geometry, call.s)) :
       Step(f, AfterForwardRun(Machine(call, context, errors), f,
                               geometry, o),
            IF det.valid THEN [det EXCEPT !.fwd = <<o>>] ELSE det)

\* Lines 766-774: the two charge-tagged results, combined.
Combined(r0, r1, tmp) ==
  IF FPos(tmp)
  THEN [value |-> tmp, asymmetry |-> FDiv(FSub(r1.value, r0.value), tmp)]
  ELSE ZeroFlux

\* Combine, had it taken the asymmetry as (r0 - r1) / (r0 + r1).
CombineSwapped(r0, r1) == Combined(r1, r0, FAdd(r0.value, r1.value))

Combine(r0, r1) == Combined(r0, r1, FAdd(r0.value, r1.value))

\* What mulder_fluxmeter_flux does with r, the flux of the transported state.
Sampled(m, fm, g, r) ==
  IF ~(m.c.initial.pid = MULDER_ANY /\ g.geomagnet # NULL)
  THEN Done([m EXCEPT !.c.flux = r, !.c.r = Append(@, r)])
  ELSE IF m.c.k = 0
  THEN transport_event([m EXCEPT !.c.k = 1, !.c.r = Append(@, r)], fm, g,
                       [m.c.s0 EXCEPT !.charge = 1])
  ELSE Done([m EXCEPT !.c.flux = Combine(m.c.r[1], r),
                      !.c.r = Append(@, r)])

\* mulder_state_flux on the transported state, and what flux does next.
Sample ==
  /\ call.pc = "sample"
  /\ Step(f,
          Sampled(Machine([call EXCEPT !.sampled = Append(@, call.state),
                                       !.trace = Append(@, "SAMPLE")],
                          context, errors),
                  f, geometry, mulder_state_flux(call.state, f.reference)),
          det)

\* ----------------------------------------- grammage, intersect, whereami

\* layers_locals (the layer's density) and atmosphere_locals (a nominal
\* 1 kg/m^3 for the air), in kg/m^3.
Density(g, medium) ==
  IF medium.kind = "layer" THEN g.layers[medium.index + 1].density ELSE 1

\* The bin of a medium: the layer index, or geometry->size for the atmosphere.
Bin(g, medium) ==
  IF medium.kind = "atmosphere" THEN Len(g.layers) ELSE medium.index

Traversed(g, s, media0, next, media1) ==
  IF media0 = NoMedium
  THEN [rc |-> "SUCCESS", event |-> "MEDIUM", media0 |-> NoMedium,
        media1 |-> NoMedium, height |-> s.height, grammage |-> s.grammage]
  ELSE [rc |-> "SUCCESS", event |-> "MEDIUM", media0 |-> media0,
        media1 |-> media1, height |-> next,
        grammage |-> s.grammage
                     + Density(g, media0) * Abs(next[1] - s.height[1])]

\* pumas_context_transport with the medium event: one traversal, from the
\* position to the next change of medium, energy losses disabled.
TraversalTo(cx, fm, g, s, next) ==
  Traversed(g, s, Locate(cx, fm, g, s.height), next, Locate(cx, fm, g, next))

Traversal(cx, fm, g, s) ==
  TraversalTo(cx, fm, g, s,
              Across(ContextStepper(cx, fm), s.height, GoesUp(cx, s)))

TraversalFailure(s) ==
  [rc |-> "FAILURE", event |-> "NONE", media0 |-> NoMedium,
   media1 |-> NoMedium, height |-> s.height, grammage |-> s.grammage]

\* Lines 1075-1100 and 1141-1176: the state and the context of a line of
\* sight.
SightState(height, elevation) ==
  [charge |-> 1, energy |-> Num(1), weight |-> FOne, time |-> 0,
   height |-> height, direction |-> elevation, grammage |-> 0]

\* Sighting, had the flag been taken at ztop itself.
SightingAtZtop(f1, height) ==
  [f1 EXCEPT !.use_geomagnet = FALSE,
             !.use_external_layer = NLe(f1.ztop, height)]

\* Sighting, had the geomagnetic field been left as the call before set it.
SightingWithField(f1, height) ==
  [f1 EXCEPT !.use_external_layer = NLe(NAdd(f1.ztop, FLT_EPSILON), height)]

Sighting(f1, height) ==
  [f1 EXCEPT !.use_geomagnet = FALSE,
             !.use_external_layer = NLe(NAdd(f1.ztop, FLT_EPSILON), height)]

\* The fluxmeter of a line of sight, had the steppers been left as they are.
SightFluxmeterAsIs(fm, g, height) ==
  Sighting([fm EXCEPT !.builds = 0], height)

SightFluxmeter(fm, g, height) ==
  Sighting(update_steppers([fm EXCEPT !.builds = 0], g), height)

SightContext(cx) ==
  [cx EXCEPT !.medium = "layers_geometry", !.direction = "FORWARD",
             !.energy_loss = "DISABLED", !.event = "MEDIUM"]

\* mulder_fluxmeter_grammage, up to its first driver run.  binned: whether an
\* array is passed for the grammage of each layer.
GrammageCall(height, elevation, binned) ==
  /\ Idle
  /\ f' = SightFluxmeter(f, geometry, height)
  /\ context' = SightContext(context)
  /\ call' = [IdleCall EXCEPT
                !.op = "grammage", !.pc = "step", !.trace = <<"INIT">>,
                !.initial = State(MULDER_ANY, height, elevation, Num(1),
                                  FOne),
                !.stale = ~UpToDate(f),
                !.s = SightState(height, elevation),
                !.binned = binned,
                !.bins = IF binned
                         THEN [i \in 1..(Len(geometry.layers) + 1) |-> 0]
                         ELSE <<>>]
  /\ errors' = <<>>
  /\ det' = NoDet
  /\ UNCHANGED <<geometry, handlers, history>>

Returning(c, total) ==
  [c EXCEPT !.pc = "done", !.trace = Append(@, "DONE"), !.total = total]

\* Binned, had it left last_grammage at 0.
BinnedFromZero(c, g, o) ==
  IF c.binned /\ o.media0 # NoMedium
  THEN [c EXCEPT !.bins[Bin(g, o.media0) + 1] =
                    @ + (o.grammage - c.last_grammage)]
  ELSE c

\* Lines 1200-1212: the increment goes to the bin of the medium traversed.
Binned(c, g, o) ==
  IF c.binned /\ o.media0 # NoMedium
  THEN [c EXCEPT !.bins[Bin(g, o.media0) + 1] =
                    @ + (o.grammage - c.last_grammage),
                 !.last_grammage = o.grammage]
  ELSE c

\* Lines 1188-1220: one turn of the loop.
AfterTraversal(c, g, o) ==
  IF o.rc # "SUCCESS"
  THEN Returning([c EXCEPT !.runs = Append(@, o.media0)], 0)
  ELSE IF c.binned /\ o.media0 = NoMedium
  THEN Returning([c EXCEPT !.runs = Append(@, o.media0)], o.grammage)
  ELSE IF o.event # "MEDIUM" \/ o.media1 = NoMedium
  THEN Returning(Binned([c EXCEPT !.s.height = o.height,
                                  !.s.grammage = o.grammage,
                                  !.runs = Append(@, o.media0)], g, o),
                 o.grammage)
  ELSE Binned([c EXCEPT !.s.height = o.height, !.s.grammage = o.grammage,
                        !.runs = Append(@, o.media0)], g, o)

GrammageRun ==
  /\ call.pc = "step"
  /\ \E o \in {Traversal(context, f, geometry, call.s),
               TraversalFailure(call.s)} :
       /\ call' = AfterTraversal(call, geometry, o)
       /\ errors' = IF o.rc # "SUCCESS"
                    THEN pumas_error(errors, "pumas error") ELSE errors
  /\ UNCHANGED <<geometry, f, context, det, handlers, history>>

\* Lines 1102-1128: the layer a traversal ends in.
Intersection(g, o) ==
  IF o.rc # "SUCCESS" \/ o.event # "MEDIUM"
  THEN [layer |-> -1, height |-> Num(0)]
  ELSE IF o.media1 = NoMedium THEN [layer |-> -1, height |-> o.height]
  ELSE [layer |-> Bin(g, o.media1), height |-> o.height]

Intersected(height, elevation, stale, o, i) ==
  [IdleCall EXCEPT
     !.op = "intersect", !.pc = "done", !.trace = <<"INIT", "DONE">>,
     !.initial = State(MULDER_ANY, height, elevation, Num(1), FOne),
     !.stale = stale,
     !.s = SightState(height, elevation),
     !.runs = <<o.media0>>,
     !.position = i.height,
     !.layer = i.layer]

\* mulder_fluxmeter_intersect
IntersectCall(height, elevation) ==
  /\ Idle
  /\ f' = SightFluxmeter(f, geometry, height)
  /\ context' = SightContext(context)
  /\ \E o \in {Traversal(SightContext(context),
                         SightFluxmeter(f, geometry, height), geometry,
                         SightState(height, elevation)),
               TraversalFailure(SightState(height, elevation))} :
       /\ call' = Intersected(height, elevation, ~UpToDate(f), o,
                              Intersection(geometry, o))
       /\ errors' = IF o.rc # "SUCCESS"
                    THEN pumas_error(<<>>, "pumas error") ELSE <<>>
  /\ det' = NoDet
  /\ UNCHANGED <<geometry, handlers, history>>

\* Line 1257: return (index[0] > 0) ? index[0] - 1 : -1
Whereami(index) == IF index > 0 THEN index - 1 ELSE -1

Located(height, stale, index) ==
  [IdleCall EXCEPT
     !.op = "whereami", !.pc = "done", !.trace = <<"INIT", "DONE">>,
     !.initial = State(MULDER_ANY, height, 0, Num(0), FOne),
     !.stale = stale,
     !.layer = Whereami(index)]

\* mulder_fluxmeter_whereami
WhereamiCall(height) ==
  /\ Idle
  /\ f' = update_steppers([f EXCEPT !.builds = 0], geometry)
  /\ call' = Located(height, ~UpToDate(f),
                     StepperIndex(update_steppers(f, geometry).layers_stepper,
                                  height))
  /\ errors' = <<>>
  /\ det' = NoDet
  /\ UNCHANGED <<geometry, context, handlers, history>>

\* ------------------------------------------------- between two calls

\* The call has returned, and the caller has its result.
Return ==
  /\ call.pc = "done"
  /\ call' = IdleCall
  /\ errors' = <<>>
  /\ det' = NoDet
  /\ f' = [f EXCEPT !.builds = 0]
  /\ UNCHANGED <<geometry, context, handlers, history>>

\* fluxmeter->reference = reference
SetReference(reference) ==
  /\ Idle
  /\ reference # f.reference
  /\ f' = [f EXCEPT !.reference = reference]
  /\ UNCHANGED <<geometry, context, call, errors, det, handlers, history>>

\* fluxmeter->mode = mode
SetMode(mode) ==
  /\ Idle
  /\ mode # f.mode
  /\ f' = [f EXCEPT !.mode = mode]
  /\ UNCHANGED <<geometry, context, call, errors, det, handlers, history>>

\* geometry->geomagnet = geomagnet
SetGeomagnet(geomagnet) ==
  /\ Idle
  /\ geomagnet # geometry.geomagnet
  /\ geometry' = [geometry EXCEPT !.geomagnet = geomagnet]
  /\ UNCHANGED <<f, context, call, errors, det, handlers, history>>

\* ------------------------------------------------- the error handlers

\* What a library's handler pointer can hold besides mulder's adapters: no
\* handler, or one of two handlers of the library or of the user.
Handlers == {NULL, "handler_a", "handler_b"}

\* The adapter of lines 57-63 (pumas_error, above) and of lines 67-73.
turtle_error(log, message) == Append(log, message)

\* The libraries as they are before mulder is loaded, on any handlers;
\* pumas_default_error and turtle_default_error are NULL (lines 65 and 75).
Unloaded(pumas, turtle) ==
  [pumas |-> pumas, turtle |-> turtle,
   pumas_default_error |-> NULL, turtle_default_error |-> NULL]

\* mulder_initialise, recording the handlers after they were replaced.
mulder_initialise_late(h) ==
  [h EXCEPT !.pumas_default_error = "pumas_error", !.pumas = "pumas_error",
            !.turtle_default_error = "turtle_error", !.turtle = "turtle_error"]

\* mulder_initialise (lines 82-89).
mulder_initialise(h) ==
  [h EXCEPT !.pumas_default_error = h.pumas, !.pumas = "pumas_error",
            !.turtle_default_error = h.turtle, !.turtle = "turtle_error"]

\* mulder_finalise (lines 96-103).
mulder_finalise(h) ==
  [h EXCEPT !.pumas = h.pumas_default_error, !.pumas_default_error = NULL,
            !.turtle = h.turtle_default_error, !.turtle_default_error = NULL]

\* The library as the constructor leaves it, over handlers of the libraries.
Loaded == mulder_initialise(Unloaded("handler_a", "handler_a"))

\* The number of library calls that are followed.
MaxCalls == 4

Messages == {"pumas failure", "turtle failure"}

\* One more call in the history: its name, and the handlers it found.
Called(name, h) ==
  Append(history, [name |-> name, pumas |-> h.pumas, turtle |-> h.turtle])

InitHandlers ==
  /\ geometry = [layers |-> <<>>, geomagnet |-> NULL]
  /\ f = mulder_fluxmeter_create(geometry)
  /\ context = InitialContext
  /\ call = IdleCall
  /\ errors = <<>>
  /\ det = NoDet
  /\ handlers \in {Unloaded(pumas, turtle) :
                     pumas \in Handlers, turtle \in Handlers}
  /\ history = <<>>

Initialise ==
  /\ Len(history) < MaxCalls
  /\ handlers' = mulder_initialise(handlers)
  /\ history' = Called("mulder_initialise", handlers)
  /\ UNCHANGED <<geometry, f, context, call, errors, det>>

Finalise ==
  /\ Len(history) < MaxCalls
  /\ handlers' = mulder_finalise(handlers)
  /\ history' = Called("mulder_finalise", handlers)
  /\ UNCHANGED <<geometry, f, context, call, errors, det>>

\* pumas_error_handler_set and turtle_error_handler_set, by the user.
SetPumasHandler(handler) ==
  /\ Len(history) < MaxCalls
  /\ handlers' = [handlers EXCEPT !.pumas = handler]
  /\ history' = Called("pumas_error_handler_set", handlers)
  /\ UNCHANGED <<geometry, f, context, call, errors, det>>

SetTurtleHandler(handler) ==
  /\ Len(history) < MaxCalls
  /\ handlers' = [handlers EXCEPT !.turtle = handler]
  /\ history' = Called("turtle_error_handler_set", handlers)
  /\ UNCHANGED <<geometry, f, context, call, errors, det>>

\* A library function fails and hands its message to the library's handler:
\* the adapter passes it to mulder_error, any other handler keeps it.
PumasFailure(message) ==
  /\ Len(history) < MaxCalls
  /\ errors' = IF handlers.pumas = "pumas_error"
               THEN pumas_error(errors, message) ELSE errors
  /\ history' = Called("pumas failure", handlers)
  /\ UNCHANGED <<geometry, f, context, call, det, handlers>>

TurtleFailure(message) ==
  /\ Len(history) < MaxCalls
  /\ errors' = IF handlers.turtle = "turtle_error"
               THEN turtle_error(errors, message) ELSE errors
  /\ history' = Called("turtle failure", handlers)
  /\ UNCHANGED <<geometry, f, context, call, det, handlers>>

NextHandlers ==
  \/ Initialise
  \/ Finalise
  \/ \E handler \in Handlers : SetPumasHandler(handler)
  \/ \E handler \in Handlers : SetTurtleHandler(handler)
  \/ \E message \in Messages : PumasFailure(message)
  \/ \E message \in Messages : TurtleFailure(message)

SpecHandlers == InitHandlers /\ [][NextHandlers]_vars

\* ------------------------------------------- the geomagnetic field's cache

\* The addresses malloc may give to a struct geomagnet, and the snapshots
\* (model and date) a geomagnet may be created with.
Addresses == {"0x1", "0x2"}

Snapshots == {"IGRF13_2020", "IGRF13_2000"}

Free == "free"

\* The particle positions of the column, as heights in metres, and the
\* elevations of the particle's direction, in degrees.
Positions == {0, 500, 2000, 5000, 20000, 50000, 110000}

LocalElevations == {90, 30, 0, -30, -90}

\* The driver's accuracy (context->accuracy), as pumas_context_create may
\* have set it.
Accuracies == {<<1, 100>>, <<1, 10>>}

\* us_standard_density: the scale height lambda = ci[i] * 1E-02 of the shell
\* of height, in units of 1E-04 m.
us_standard_lambda(height) ==
  IF height < 4000 THEN FInt(99418638)
  ELSE IF height < 10000 THEN FInt(87815355)
  ELSE IF height < 40000 THEN FInt(63614304)
  ELSE FInt(77217016)

\* sin(elevation * M_PI / 180)
SinElevation(elevation) == CosTheta(elevation)

\* RecommendedStep, had the sine been bounded by 0.5.
RecommendedStepHalf(lambda, elevation) ==
  FDiv(lambda,
       IF FLess(<<Abs(SinElevation(elevation)[1]),
                  SinElevation(elevation)[2]>>, <<1, 2>>)
       THEN <<1, 2>>
       ELSE <<Abs(SinElevation(elevation)[1]), SinElevation(elevation)[2]>>)

\* Lines 1371-1373 of atmosphere_locals: lambda / c, with c = fabs(sin(...))
\* and c = 0.1 if c < 0.1.
RecommendedStep(lambda, elevation) ==
  FDiv(lambda,
       IF FLess(<<Abs(SinElevation(elevation)[1]),
                  SinElevation(elevation)[2]>>, <<1, 10>>)
       THEN <<1, 10>>
       ELSE <<Abs(SinElevation(elevation)[1]), SinElevation(elevation)[2]>>)

\* Lines 1382 and 1441-1442: lambda_g = 1E+03 m over the accuracy, or lambda
\* if it is shorter.
FieldStep(lambda, accuracy) ==
  IF FLess(lambda, FDiv(FInt(10000000), accuracy)) THEN lambda
  ELSE FDiv(FInt(10000000), accuracy)

\* memset(f->geomagnet_position, 0x0, ...): the centre of the Earth, as a
\* height, and memset(f->geomagnet_field, 0x0, ...).
Origin == -6371000

ZeroField == [snapshot |-> NULL, position |-> Origin]

\* gull_snapshot_field(snapshot, latitude, longitude, height, ...)
gull_snapshot_field(snapshot, position) ==
  [snapshot |-> snapshot, position |-> position]

\* Lines 1382-1390: d2 > lambda_g * lambda_g, with lambda_g = 1E+03.
Beyond(position, cached) ==
  \/ cached - position > 1000
  \/ position - cached > 1000

\* Lines 603-610 of mulder_fluxmeter_create.
InitialCache ==
  [current_geomagnet |-> NULL, use_geomagnet |-> FALSE,
   geomagnet_position |-> Origin, geomagnet_field |-> ZeroField]

\* Lines 865-873 of init_event.
UpdatedGeomagnet(fm, g) ==
  [(IF g.geomagnet # fm.current_geomagnet
    THEN [fm EXCEPT !.geomagnet_field = ZeroField,
                    !.geomagnet_position = Origin,
                    !.current_geomagnet = g.geomagnet]
    ELSE fm)
   EXCEPT !.use_geomagnet = (g.geomagnet # NULL)]

\* Lines 1391-1427 of atmosphere_locals: the cache after the callback at
\* position; allocated: the geomagnets by address.
LocalField(fm, allocated, position) ==
  IF Beyond(position, fm.geomagnet_position)
  THEN [fm EXCEPT !.geomagnet_field =
                     gull_snapshot_field(allocated[fm.current_geomagnet],
                                         position),
                  !.geomagnet_position = position]
  ELSE fm

\* No call in progress; snapshot: the one attached when the call started;
\* magnet: what the last callback wrote to locals->magnet, if it did;
\* elevation and step: the direction the last callback found and the step it
\* returned, if there was one.
NoFieldCall ==
  [pc |-> "idle", position |-> 0, elevation |-> 0, snapshot |-> NULL,
   magnet |-> <<>>, step |-> <<>>]

InitGeomagnet ==
  /\ geometry = [layers |-> <<>>, geomagnet |-> NULL,
                 allocated |-> [a \in Addresses |-> Free]]
  /\ f = InitialCache
  /\ context \in {[accuracy |-> accuracy] @@ InitialContext :
                    accuracy \in Accuracies}
  /\ call = NoFieldCall
  /\ errors = <<>>
  /\ det = NoDet
  /\ handlers = Loaded
  /\ history = <<>>

\* mulder_geomagnet_create: malloc gives any address that is free.
GeomagnetCreate(snapshot) ==
  /\ call.pc = "idle"
  /\ \E a \in Addresses :
       /\ geometry.allocated[a] = Free
       /\ geometry' = [geometry EXCEPT !.allocated[a] = snapshot]
  /\ UNCHANGED <<f, context, call, errors, det, handlers, history>>

\* mulder_geomagnet_destroy(&geomagnet); on &geometry->geomagnet it leaves
\* the geometry without geomagnet.
GeomagnetDestroy(a) ==
  /\ call.pc = "idle"
  /\ geometry.allocated[a] # Free
  /\ geometry' = [geometry EXCEPT
                    !.allocated[a] = Free,
                    !.geomagnet = IF @ = a THEN NULL ELSE @]
  /\ UNCHANGED <<f, context, call, errors, det, handlers, history>>

\* geometry->geomagnet = geomagnet, or NULL
GeomagnetAttach(geomagnet) ==
  /\ call.pc = "idle"
  /\ geomagnet # geometry.geomagnet
  /\ geomagnet # NULL => geometry.allocated[geomagnet] # Free
  /\ geometry' = [geometry EXCEPT !.geomagnet = geomagnet]
  /\ UNCHANGED <<f, context, call, errors, det, handlers, history>>

\* A flux or a transport call with a kinetic energy > 0, up to its first
\* driver run.
FieldCall(position) ==
  /\ call.pc = "idle"
  /\ f' = UpdatedGeomagnet(f, geometry)
  /\ call' = [NoFieldCall EXCEPT
                !.pc = "run", !.position = position,
                !.snapshot = IF geometry.geomagnet = NULL THEN NULL
                             ELSE geometry.allocated[geometry.geomagnet]]
  /\ UNCHANGED <<geometry, context, errors, det, handlers, history>>

\* An intersect or a grammage call, up to its driver run (lines 1093, 1169).
SightCall(position) ==
  /\ call.pc = "idle"
  /\ f' = [f EXCEPT !.use_geomagnet = FALSE]
  /\ call' = [NoFieldCall EXCEPT !.pc = "run", !.position = position]
  /\ UNCHANGED <<geometry, context, errors, det, handlers, history>>

\* atmosphere_locals, called by the driver with the particle at position,
\* going in the direction of elevation.
AtmosphereLocals(position, elevation) ==
  /\ call.pc = "run"
  /\ IF ~f.use_geomagnet
     THEN /\ call' = [call EXCEPT
                        !.position = position, !.elevation = elevation,
                        !.magnet = <<>>,
                        !.step = <<RecommendedStep(
                                     us_standard_lambda(position),
                                     elevation)>>]
          /\ f' = f
     ELSE /\ f' = LocalField(f, geometry.allocated, position)
          /\ call' = [call EXCEPT
                        !.position = position, !.elevation = elevation,
                        !.magnet = <<LocalField(f, geometry.allocated,
                                                position).geomagnet_field>>,
                        !.step = <<FieldStep(
                                     RecommendedStep(
                                       us_standard_lambda(position),
                                       elevation),
                                     context.accuracy)>>]
  /\ UNCHANGED <<geometry, context, errors, det, handlers, history>>

\* The call returns.
FieldReturn ==
  /\ call.pc = "run"
  /\ call' = NoFieldCall
  /\ UNCHANGED <<geometry, f, context, errors, det, handlers, history>>

NextGeomagnet ==
  \/ \E snapshot \in Snapshots : GeomagnetCreate(snapshot)
  \/ \E a \in Addresses : GeomagnetDestroy(a)
  \/ \E geomagnet \in Addresses \cup {NULL} : GeomagnetAttach(geomagnet)
  \/ \E position \in Positions : FieldCall(position)
  \/ \E position \in Positions : SightCall(position)
  \/ \E position \in Positions, elevation \in LocalElevations :
       AtmosphereLocals(position, elevation)
  \/ FieldReturn

SpecGeomagnet == InitGeomagnet /\ [][NextGeomagnet]_vars

\* ------------------------------------------------------ specification

\* mulder_geometry_create and mulder_fluxmeter_create, on either column.
Init ==
  /\ geometry \in {[layers |-> layers, geomagnet |-> NULL] :
                     layers \in Geometries}
  /\ f = mulder_fluxmeter_create(geometry)
  /\ context = InitialContext
  /\ call = IdleCall
  /\ errors = <<>>
  /\ det = NoDet
  /\ handlers = Loaded
  /\ history = <<>>

Next ==
  \/ \E initial \in Observations : FluxCall(initial)
  \/ \E initial \in Observations : TransportCall(initial)
  \/ AscendRun
  \/ ForwardRun
  \/ Sample
  \/ \E height \in Heights, elevation \in Elevations, binned \in BOOLEAN :
       GrammageCall(height, elevation, binned)
  \/ GrammageRun
  \/ \E height \in Heights, elevation \in Elevations :
       IntersectCall(height, elevation)
  \/ \E height \in Heights : WhereamiCall(height)
  \/ Return
  \/ \E reference \in References : SetReference(reference)
  \/ \E mode \in Modes : SetMode(mode)
  \/ \E geomagnet \in Geomagnets : SetGeomagnet(geomagnet)

Spec == Init /\ [][Next]_vars

\* ------------------------------------------- the steppers, on their own

\* The bounds a user writes in the reference's support, in either order.
SupportHeights == {Num(0), Num(50), Num(100), Num(200)}

InitSteppers ==
  /\ geometry \in {[layers |-> layers, geomagnet |-> NULL] :
                     layers \in Geometries}
  /\ f = mulder_fluxmeter_create(geometry)
  /\ context = InitialContext
  /\ call = IdleCall
  /\ errors = <<>>
  /\ det = NoDet
  /\ handlers = Loaded
  /\ history = <<>>

\* The user writes the support of the attached reference.
SetSupport(height_min, height_max) ==
  /\ Idle
  /\ f' = [f EXCEPT !.reference.height_min = height_min,
                    !.reference.height_max = height_max]
  /\ UNCHANGED <<geometry, context, call, errors, det, handlers, history>>

\* update_steppers, as the next call on the fluxmeter runs it.
Rebuild ==
  /\ f' = update_steppers([f EXCEPT !.builds = 0], geometry)
  /\ UNCHANGED <<geometry, context, call, errors, det, handlers, history>>

NextSteppers ==
  \/ \E height_min \in SupportHeights, height_max \in SupportHeights :
       SetSupport(height_min, height_max)
  \/ Rebuild

SpecSteppers == InitSteppers /\ [][NextSteppers]_vars

\* The calls that run the driver, in CSDA mode, on a fluxmeter whose user may
\* also raise the support of the attached reference to [150, 200] m.
NextSupport ==
  \/ \E initial \in Observations : FluxCall(initial)
  \/ \E initial \in Observations : TransportCall(initial)
  \/ AscendRun
  \/ ForwardRun
  \/ Sample
  \/ \E height \in Heights, elevation \in Elevations, binned \in BOOLEAN :
       GrammageCall(height, elevation, binned)
  \/ GrammageRun
  \/ \E height \in Heights, elevation \in Elevations :
       IntersectCall(height, elevation)
  \/ Return
  \/ \E reference \in References : SetReference(reference)
  \/ \E geomagnet \in Geomagnets : SetGeomagnet(geomagnet)
  \/ SetSupport(Num(150), Num(200))

SpecSupport == Init /\ [][NextSupport]_vars

\* The transports, on a fluxmeter whose user may also lower the energy_max of
\* the attached reference to 50 GeV.
SetEnergyMax(energy_max) ==
  /\ Idle
  /\ f.reference.energy_max # energy_max
  /\ f' = [f EXCEPT !.reference.energy_max = energy_max]
  /\ UNCHANGED <<geometry, context, call, errors, det, handlers, history>>

NextEnergy ==
  \/ \E initial \in Observations : TransportCall(initial)
  \/ AscendRun
  \/ ForwardRun
  \/ Return
  \/ \E mode \in Modes : SetMode(mode)
  \/ SetEnergyMax(Num(50))

SpecEnergy == Init /\ [][NextEnergy]_vars

\* The same, the loop of lines 944-981 running the driver again as long as it
\* is in it: the weak fairness of AscendRun, written out, AscendRun being
\* enabled exactly when the call is in the loop (the driver always answers,
\* and every run is recorded).
SpecAscent ==
  /\ Init
  /\ [][NextEnergy]_vars
  /\ ([]<>(call.pc # "ascend") \/ []<><<AscendRun>>_vars)

\* ------------------------------------------- the reference, on its own

\* The points a reference is sampled at through its flux member: on and off
\* the vertices of the table, inside and outside of its ranges.
ReferenceEnergies == {Num(0), Num(1), Num(10), Num(100), Num(1000)}

ReferenceElevations == {90, 30, 0, -30, -90}

\* A fluxmeter whose reference was set to a table, and the point of the
\* next sample.
InitReference ==
  /\ geometry = [layers |-> <<>>, geomagnet |-> NULL]
  /\ f \in {[mulder_fluxmeter_create(geometry) EXCEPT !.reference = reference] :
              reference \in {r \in References : r.table # NULL}}
  /\ context = InitialContext
  /\ call \in {[IdleCall EXCEPT
                  !.initial = State(MULDER_ANY, height, elevation, energy,
                                    FOne)] :
                 height \in Heights, elevation \in ReferenceElevations,
                 energy \in ReferenceEnergies}
  /\ errors = <<>>
  /\ det = NoDet
  /\ handlers = Loaded
  /\ history = <<>>

\* reference->flux(reference, height, elevation, kinetic_energy)
ReferenceSample ==
  /\ call.pc = "idle"
  /\ call' = [call EXCEPT
                !.op = "reference", !.pc = "done",
                !.flux = ReferenceFlux(f.reference, call.initial.height,
                                       call.initial.elevation,
                                       call.initial.energy)]
  /\ UNCHANGED <<geometry, f, context, errors, det, handlers, history>>

NextReference == ReferenceSample

SpecReference == InitReference /\ [][NextReference]_vars

\* ------------------------------------------- the cells a lookup reads

TableEnergies == ReferenceEnergies \cup {Num(-1)}

\* A fluxmeter whose reference is a table of one or of two height slabs, and
\* the point of the next lookup.
InitTable ==
  /\ geometry = [layers |-> <<>>, geomagnet |-> NULL]
  /\ f \in {[mulder_fluxmeter_create(geometry) EXCEPT
               !.reference = TableReference(id)] :
              id \in {"Table1", "Table2"}}
  /\ context = InitialContext
  /\ call \in {[IdleCall EXCEPT
                  !.initial = State(MULDER_ANY, height, elevation, energy,
                                    FOne)] :
                 height \in Heights, elevation \in ReferenceElevations,
                 energy \in TableEnergies}
  /\ errors = <<>>
  /\ det = NoDet
  /\ handlers = Loaded
  /\ history = <<>>

\* reference_table_flux at the point (hk0, hc0, hh0) of the grid: the cells
\* read, and the result; with hk0 a NaN the interpolation gives a NaN, which
\* is not > 0, and the result stays {0.}.
TableRead(c, table, height, hk0, hc0, hh0) ==
  IF TableRejects(table, height, hk0, hc0)
  THEN {[c EXCEPT !.op = "table", !.pc = "done", !.flux = ZeroFlux]}
  ELSE {[c EXCEPT
           !.op = "table", !.pc = "done",
           !.cells = Corners(table, ik, Floor(hc0), Floor(hh0)),
           !.flux = IF hk0 = NaN THEN ZeroFlux
                    ELSE TableCell(table, hk0, hc0, hh0, ik, Floor(hc0),
                                   Floor(hh0))] : ik \in Cast(hk0)}

\* mulder_state_flux(state, reference) on a table: the lookup of
\* reference_table_flux.
TableSample ==
  /\ call.pc = "idle"
  /\ call' \in TableRead(
       call, Tables(f.reference.table), call.initial.height,
       Coordinate(Log10(call.initial.energy),
                  Log10(Tables(f.reference.table).k_min),
                  Log10(Tables(f.reference.table).k_max),
                  Tables(f.reference.table).n_k),
       Coordinate(CosTheta(call.initial.elevation),
                  Tables(f.reference.table).c_min,
                  Tables(f.reference.table).c_max,
                  Tables(f.reference.table).n_c),
       IF Tables(f.reference.table).n_h > 1
       THEN Coordinate(FInt(call.initial.height[1]),
                       FInt(Tables(f.reference.table).h_min[1]),
                       FInt(Tables(f.reference.table).h_max[1]),
                       Tables(f.reference.table).n_h)
       ELSE FZero)
  /\ UNCHANGED <<geometry, f, context, errors, det, handlers, history>>

NextTable == TableSample

SpecTable == InitTable /\ [][NextTable]_vars

\* ------------------------------------------------------------ properties

\* C1 (amended).  In CSDA mode with no geomagnet attached, for an observation
\* state s with kinetic energy > 0 and t = mulder_fluxmeter_transport(s), the
\* value of mulder_fluxmeter_flux(s) is
\* reference.flux(t.height, t.elevation, t.energy).value * t.weight when s is
\* untagged, and that product times 1/2 (1 + charge * asymmetry) when s is
\* tagged, charge being -1 for a muon and +1 for an anti-muon and asymmetry
\* the asymmetry of the same reference sample.
C1_FluxIsSampledTransport ==
  (det.valid /\ det.flux # <<>> /\ det.transport # <<>>) =>
    LET t == det.transport[1]
        sample == ReferenceFlux(f.reference, t.height, t.elevation, t.energy)
        charge == IF det.key.pid = MULDER_MUON THEN -1 ELSE 1
    IN det.flux[1].value =
         IF det.key.pid = MULDER_ANY
         THEN FMul(sample.value, t.weight)
         ELSE FMul(FMul(sample.value, t.weight),
                   FMul(FHalf, FAdd(FOne, FMul(FInt(charge),
                                               sample.asymmetry))))

\* C1, witness: a tagged observation whose flux and transport both went
\* through a driver run and returned a positive flux.
C1_TaggedFluxAndTransport ==
  /\ det.valid /\ det.flux # <<>> /\ det.transport # <<>>
  /\ det.key.pid = MULDER_MUON
  /\ det.bwd # <<>>
  /\ FPos(det.flux[1].value)
  /\ FPos(det.transport[1].weight)

\* C1, as stated: flux(s).value = reference.flux(t).value * t.weight for
\* every s, tagged or not.
C1_FluxIsReferenceTimesWeight ==
  (det.valid /\ det.flux # <<>> /\ det.transport # <<>>) =>
    det.flux[1].value =
      FMul(ReferenceFlux(f.reference, det.transport[1].height,
                         det.transport[1].elevation,
                         det.transport[1].energy).value,
           det.transport[1].weight)

\* C2, as stated.  Within one flux call the phases of a transport follow the
\* order INIT, ASCEND_BACKWARD, CSDA_FORWARD, SAMPLE, DONE (a second transport
\* starting over after the first one's SAMPLE), an abandoned transport ends
\* the call at once with the result 0, and every state the reference is
\* sampled for has a weight > 0.
C2_SampleOnlyAfterSuccess ==
  call.op = "flux" =>
    LET rank == [p \in {"INIT", "ASCEND_BACKWARD", "CSDA_FORWARD", "SAMPLE",
                        "DONE"} |->
                   CASE p = "INIT" -> 0
                     [] p = "ASCEND_BACKWARD" -> 1
                     [] p = "CSDA_FORWARD" -> 2
                     [] p = "SAMPLE" -> 3
                     [] p = "DONE" -> 4]
    IN /\ \A i \in 1..(Len(call.trace) - 1) :
            \/ rank[call.trace[i]] < rank[call.trace[i + 1]]
            \/ call.trace[i] = "SAMPLE" /\ call.trace[i + 1] # "INIT"
       /\ \A i \in 1..Len(call.sampled) : FPos(call.sampled[i].weight)
       /\ call.abandoned # <<>> =>
            (call.pc = "done" /\ call.flux = ZeroFlux)

\* C3.  For every state with kinetic energy K <= 0, mulder_fluxmeter_flux
\* returns value 0 and asymmetry 0, calls mulder_error exactly once, with
\* "bad kinetic energy (K)", and runs the driver not once.
C3_BadKineticEnergy ==
  (call.op = "flux" /\ NLe(call.initial.energy, Num(0))) =>
    /\ call.pc = "done"
    /\ call.flux = [value |-> FZero, asymmetry |-> FZero]
    /\ Len(errors) = 1
    /\ errors[1] = (IF call.initial.energy = Num(0)
                    THEN "bad kinetic energy (0)"
                    ELSE "bad kinetic energy (-1)")
    /\ call.runs = <<>>
    /\ call.starts = <<>>
    /\ call.sampled = <<>>

\* C3, witness: a flux call at K = 0 has returned.
C3_FluxAtZeroEnergy ==
  /\ call.op = "flux" /\ call.pc = "done"
  /\ call.initial.energy = Num(0)
  /\ errors = <<"bad kinetic energy (0)">>

C5_UntaggedFlux ==
  (/\ call.op = "flux" /\ call.pc = "done"
   /\ call.initial.pid = MULDER_ANY
   /\ ~NLe(call.initial.energy, Num(0))) =>
    IF geometry.geomagnet = NULL
    THEN /\ Len(call.starts) = 1
         /\ call.starts[1] = [call.s0 EXCEPT !.charge = -1]
         /\ IF call.abandoned = <<>>
            THEN LET t == call.state
                     sample == ReferenceFlux(f.reference, t.height,
                                             t.elevation, t.energy)
                 IN /\ call.sampled = <<t>>
                    /\ call.flux.value = FMul(sample.value, t.weight)
                    /\ call.flux.asymmetry = sample.asymmetry
            ELSE /\ call.sampled = <<>>
                 /\ call.flux = [value |-> FZero, asymmetry |-> FZero]
    ELSE /\ Len(call.starts) = 2
         /\ call.starts[1] = [call.s0 EXCEPT !.charge = -1]
         /\ call.starts[2] = [call.s0 EXCEPT !.charge = 1]
         /\ Len(call.sampled) = 2 /\ Len(call.r) = 2
         /\ \A i \in 1..2 :
              LET t == call.sampled[i]
                  sample == ReferenceFlux(f.reference, t.height, t.elevation,
                                          t.energy)
                  charge == IF i = 1 THEN -1 ELSE 1
              IN IF FPos(t.weight)
                 THEN /\ t.pid = (IF i = 1 THEN MULDER_MUON
                                  ELSE MULDER_ANTIMUON)
                      /\ call.r[i].value =
                           FMul(FMul(sample.value, t.weight),
                                FMul(FHalf,
                                     FAdd(FOne, FMul(FInt(charge),
                                                     sample.asymmetry))))
                 ELSE call.r[i].value = FZero
         /\ LET r0 == call.r[1].value
                r1 == call.r[2].value
            IN IF FPos(FAdd(r0, r1))
               THEN /\ call.flux.value = FAdd(r0, r1)
                    /\ call.flux.asymmetry = FDiv(FSub(r1, r0), FAdd(r0, r1))
               ELSE call.flux = [value |-> FZero, asymmetry |-> FZero]

\* C5, witness: an untagged flux, a geomagnet attached, whose two transports
\* went through the driver and gave different positive results.
C5_TwoChargesCombined ==
  /\ call.op = "flux" /\ call.pc = "done"
  /\ call.initial.pid = MULDER_ANY
  /\ geometry.geomagnet # NULL
  /\ Len(call.r) = 2 /\ Len(call.runs) >= 2
  /\ FPos(call.r[1].value) /\ FPos(call.r[2].value)
  /\ call.r[1].value # call.r[2].value
  /\ call.flux.asymmetry # FZero

\* C5, as stated, for the states with kinetic energy > 0 and no geomagnet:
\* the flux is the reference value * weight, with the reference's asymmetry,
\* the reference being sampled at the state the transport returned.
C5_UntaggedFluxHasReferenceAsymmetry ==
  (/\ call.op = "flux" /\ call.pc = "done"
   /\ call.initial.pid = MULDER_ANY
   /\ ~NLe(call.initial.energy, Num(0))
   /\ geometry.geomagnet = NULL) =>
    /\ Len(call.starts) = 1
    /\ call.flux.value =
         FMul(ReferenceFlux(f.reference, call.state.height,
                            call.state.elevation, call.state.energy).value,
              call.state.weight)
    /\ call.flux.asymmetry =
         ReferenceFlux(f.reference, call.state.height, call.state.elevation,
                       call.state.energy).asymmetry

\* C6 (amended).  For a state tagged muon (charge -1) or anti-muon (charge
\* +1) with kinetic energy > 0, the transport is run once with that charge;
\* when it is not abandoned the result is
\* value = phi0 * 1/2 (1 + charge * asymmetry0) * weight, (phi0, asymmetry0)
\* being the reference sample at the transported state, and the returned
\* asymmetry is the tag's charge; when it is abandoned the result is value 0
\* and asymmetry 0.
C6_TaggedFlux ==
  (/\ call.op = "flux" /\ call.pc = "done"
   /\ call.initial.pid # MULDER_ANY
   /\ ~NLe(call.initial.energy, Num(0))) =>
    LET charge == IF call.initial.pid = MULDER_MUON THEN -1 ELSE 1
        t == call.state
        sample == ReferenceFlux(f.reference, t.height, t.elevation, t.energy)
    IN /\ Len(call.starts) = 1
       /\ call.starts[1] = [call.s0 EXCEPT !.charge = charge]
       /\ IF call.abandoned = <<>>
          THEN /\ call.sampled = <<t>>
               /\ t.pid = call.initial.pid
               /\ call.flux.value =
                    FMul(FMul(sample.value,
                              FMul(FHalf, FAdd(FOne, FMul(FInt(charge),
                                                     sample.asymmetry)))),
                         t.weight)
               /\ call.flux.asymmetry = FInt(charge)
          ELSE /\ call.sampled = <<>>
               /\ call.flux = [value |-> FZero, asymmetry |-> FZero]

\* C6, witness: an anti-muon flux that went through a driver run and
\* returned a positive value.
C6_AntimuonFluxSampled ==
  /\ call.op = "flux" /\ call.pc = "done"
  /\ call.initial.pid = MULDER_ANTIMUON
  /\ call.runs # <<>>
  /\ FPos(call.flux.value)
  /\ call.flux.asymmetry = FInt(1)

\* C6, as stated, for the states with kinetic energy > 0: the returned
\* asymmetry of a tagged state is the tag's charge.
C6_TaggedAsymmetryIsCharge ==
  (/\ call.op = "flux" /\ call.pc = "done"
   /\ call.initial.pid # MULDER_ANY
   /\ ~NLe(call.initial.energy, Num(0))) =>
    /\ Len(call.starts) = 1
    /\ call.flux.asymmetry =
         FInt(IF call.initial.pid = MULDER_MUON THEN -1 ELSE 1)

\* C7, as stated.  With a tabulated reference, a tagged state of weight w
\* sampled at a grid vertex of the table (no transport in between) gives
\* w * f0 when tagged muon and w * f1 when tagged anti-muon, f0 and f1 being
\* the elements 0 and 1 of the vertex's cell.
C7_MuonIsElementZero ==
  (/\ call.op = "flux" /\ call.pc = "done"
   /\ call.initial.pid # MULDER_ANY
   /\ f.reference.table # NULL
   /\ call.runs = <<>> /\ Len(call.sampled) = 1
   /\ call.initial.elevation = 90
   /\ call.initial.energy \in {Num(1), Num(10), Num(100)}) =>
    LET table == Tables(f.reference.table)
        ik == Log10(call.initial.energy)[1]
        i == IF call.initial.pid = MULDER_MUON THEN 0 ELSE 1
    IN call.flux.value =
         FMul(call.sampled[1].weight, TableAt(table, 0, 1, ik, i))

\* C8 (amended).  Which driver runs a flux call with kinetic energy > 0
\* makes is fixed by the observer height h.  When
\* ztop - eps <= h <= reference.height_max + eps no driver run is made, the
\* transport weight is exactly 1 and the value is that of
\* reference.flux(h, elevation, K) for an untagged state, and that value
\* times 1/2 (1 + charge * asymmetry) for a tagged one.  When
\* h >= ztop - eps and h > reference.height_max + eps the ascent is skipped
\* and each transport makes exactly one forward CSDA run in the opensky
\* geometry: one run for a tagged state or without geomagnet, two for an
\* untagged state with a geomagnet attached.
C8_RunsFixedByHeight ==
  (/\ call.op = "flux" /\ call.pc = "done"
   /\ ~NLe(call.initial.energy, Num(0))) =>
    LET h == call.initial.height
        above == NLe(NSub(f.ztop, FLT_EPSILON), h)
        high == NLt(NAdd(f.reference.height_max, FLT_EPSILON), h)
        transports == IF call.initial.pid = MULDER_ANY
                         /\ geometry.geomagnet # NULL THEN 2 ELSE 1
        sample == ReferenceFlux(f.reference, h, call.initial.elevation,
                                call.initial.energy)
        charge == IF call.initial.pid = MULDER_MUON THEN -1 ELSE 1
    IN /\ (above /\ ~high) =>
            /\ call.runs = <<>>
            /\ call.abandoned = <<>>
            /\ Len(call.sampled) = transports
            /\ \A i \in 1..Len(call.sampled) :
                 /\ call.sampled[i].weight = FOne
                 /\ call.sampled[i].height = h
                 /\ call.sampled[i].elevation = call.initial.elevation
                 /\ call.sampled[i].energy = call.initial.energy
            /\ call.flux.value =
                 IF call.initial.pid = MULDER_ANY THEN sample.value
                 ELSE FMul(sample.value,
                           FMul(FHalf, FAdd(FOne, FMul(FInt(charge),
                                                       sample.asymmetry))))
       /\ (above /\ high) =>
            /\ Len(call.runs) = transports
            /\ \A i \in 1..Len(call.runs) :
                 /\ call.runs[i].direction = "FORWARD"
                 /\ call.runs[i].energy_loss = "CSDA"
                 /\ call.runs[i].medium = "opensky_geometry"
            /\ \A i \in 1..Len(call.trace) :
                 call.trace[i] # "ASCEND_BACKWARD"

\* C8, witness: an untagged flux above the reference's heights, a geomagnet
\* attached: no ascent, two forward runs, a positive flux.
C8_TwoForwardRuns ==
  /\ call.op = "flux" /\ call.pc = "done"
  /\ call.initial.pid = MULDER_ANY /\ geometry.geomagnet # NULL
  /\ NLe(NSub(f.ztop, FLT_EPSILON), call.initial.height)
  /\ NLt(NAdd(f.reference.height_max, FLT_EPSILON), call.initial.height)
  /\ Len(call.runs) = 2
  /\ FPos(call.flux.value)

\* C8, as stated: between ztop - eps and height_max + eps the value is
\* reference.flux(h, elevation, K) of the input state; above both, exactly
\* one forward run is made.
C8_ValueIsReferenceOneForwardRun ==
  (/\ call.op = "flux" /\ call.pc = "done"
   /\ ~NLe(call.initial.energy, Num(0))
   /\ NLe(NSub(f.ztop, FLT_EPSILON), call.initial.height)) =>
    IF NLt(NAdd(f.reference.height_max, FLT_EPSILON), call.initial.height)
    THEN Len(call.runs) = 1
    ELSE /\ call.runs = <<>>
         /\ call.flux.value =
              ReferenceFlux(f.reference, call.initial.height,
                            call.initial.elevation,
                            call.initial.energy).value

\* C9.  Every abandonment inside a transport (an event other than leaving
\* the geometry, the energy limit at reference.energy_max in Detailed mode,
\* an end height further than 1E-04 m from ztop or zref, a non-positive
\* stopping power) yields the all-zero state, of weight 0 and flux 0, and no
\* call of mulder_error: the handler is called once for each failure the
\* driver reports, and not otherwise.
C9_AbandonedSilently ==
  (/\ call.op \in {"flux", "transport"}
   /\ ~NLe(call.initial.energy, Num(0))
   /\ call.starts # <<>>) =>
    LET twice == /\ call.op = "flux" /\ call.initial.pid = MULDER_ANY
                 /\ geometry.geomagnet # NULL
        failures == {i \in 1..Len(call.abandoned) :
                       call.abandoned[i] = "driver failure"}
        zeroes == {i \in 1..Len(call.sampled) :
                     call.sampled[i].weight = FZero}
    IN /\ Len(errors) = Cardinality(failures)
       /\ \A i \in zeroes :
            /\ call.sampled[i] = State(MULDER_ANY, Num(0), 0, Num(0), FZero)
            /\ i <= Len(call.r) => call.r[i].value = FZero
       /\ (call.pc = "done" /\ twice) =>
            Cardinality(zeroes) = Len(call.abandoned)
       /\ (call.pc = "done" /\ ~twice /\ call.abandoned # <<>>) =>
            /\ call.state = State(MULDER_ANY, Num(0), 0, Num(0), FZero)
            /\ call.op = "flux" =>
                 call.flux = [value |-> FZero, asymmetry |-> FZero]
            /\ call.sampled = <<>>

\* C9, witness: a transport abandoned at the energy limit in Detailed mode
\* has returned, and mulder_error was not called.
C9_EnergyLimitAbandoned ==
  /\ call.op = "transport" /\ call.pc = "done"
  /\ call.abandoned = <<"energy limit">>
  /\ f.mode = "DETAILED"
  /\ errors = <<>>

\* C10 (amended).  For every call of mulder_fluxmeter_grammage with a
\* per-layer array of N + 1 bins that returns without a driver failure, the
\* sum of the bins equals the returned total grammage: the bins are zeroed
\* at the start and each driver traversal adds its grammage increment to the
\* bin of the medium being traversed (layer index, or N for the atmosphere),
\* until the driver reports leaving the geometry.  When a traversal fails the
\* call returns 0 and the bins keep the increments of the traversals before.
C10_BinsSumToTotal ==
  (call.op = "grammage" /\ call.binned) =>
    LET sum[i \in 0..Len(call.bins)] ==
          IF i = 0 THEN 0 ELSE sum[i - 1] + call.bins[i]
    IN /\ Len(call.bins) = Len(geometry.layers) + 1
       /\ \A i \in 1..Len(call.bins) : call.bins[i] >= 0
       /\ sum[Len(call.bins)] = call.s.grammage
       /\ (call.pc = "done" /\ errors = <<>>) =>
            sum[Len(call.bins)] = call.total
       /\ (call.pc = "done" /\ errors # <<>>) => call.total = 0

\* C10, witness: a line of sight through the air and the rock has returned,
\* each with grammage in its bin.
C10_TwoBinsFilled ==
  /\ call.op = "grammage" /\ call.binned /\ call.pc = "done"
  /\ errors = <<>>
  /\ Len(call.bins) = 2
  /\ call.bins[1] > 0 /\ call.bins[2] > 0
  /\ call.total = call.bins[1] + call.bins[2]

\* C10, as stated: on every return the bins add up to the returned total.
C10_BinsSumOnEveryReturn ==
  (call.op = "grammage" /\ call.binned /\ call.pc = "done") =>
    LET sum[i \in 0..Len(call.bins)] ==
          IF i = 0 THEN 0 ELSE sum[i - 1] + call.bins[i]
    IN sum[Len(call.bins)] = call.total

\* C11, as stated.  For an intersection mulder_fluxmeter_intersect returned
\* (the ray starting inside of the geometry), mulder_fluxmeter_whereami
\* answers, 1 m further along the ray, the layer that intersect reported (-1
\* when the ray left the geometry), and 1 m before the crossing the index of
\* the medium the ray was leaving (the layer's, or N for the atmosphere).
C11_WhereamiAgreesWithIntersect ==
  (/\ call.op = "intersect" /\ call.pc = "done"
   /\ errors = <<>>
   /\ call.runs[1] # NoMedium) =>
    LET along == Num(IF call.s.direction > 0 THEN 1 ELSE -1)
    IN /\ Whereami(StepperIndex(f.layers_stepper,
                                NAdd(call.position, along))) = call.layer
       /\ Whereami(StepperIndex(f.layers_stepper,
                                NSub(call.position, along)))
            = Bin(geometry, call.runs[1])

\* C12 (amended).  For a tabulated reference with n_h = 1, whose body data[]
\* is stored with energy as the fastest axis and then cos-elevation, a
\* request at a grid vertex (energy index ik, cosine index ic, h_min)
\* returns, with d0 = data[2 (ic n_k + ik)] and d1 = data[2 (ic n_k + ik) + 1],
\* value d0 + d1 and asymmetry (d0 - d1) / (d0 + d1) (0 and 0 when
\* d0 + d1 <= 0): data[0] and data[1] at the vertex (k_min, c_min, h_min),
\* data[2 n_k (n_c - 1)] and the next one at (k_min, c_max, h_min).
C12_VertexCell ==
  (/\ call.op = "reference"
   /\ f.reference.table # NULL
   /\ call.initial.elevation \in {0, 90}
   /\ call.initial.energy \in {Num(1), Num(10), Num(100)}) =>
    LET table == Tables(f.reference.table)
        ik == CASE call.initial.energy = Num(1) -> 0
                [] call.initial.energy = Num(10) -> 1
                [] call.initial.energy = Num(100) -> 2
        ic == IF call.initial.elevation = 90 THEN table.n_c - 1 ELSE 0
        d0 == table.data[2 * (ic * table.n_k + ik) + 1]
        d1 == table.data[2 * (ic * table.n_k + ik) + 2]
    IN /\ table.n_h = 1
       /\ IF d0 + d1 > 0
          THEN /\ call.flux.value = <<d0 + d1, 1>>
               /\ call.flux.asymmetry[1] * (d0 + d1)
                    = (d0 - d1) * call.flux.asymmetry[2]
          ELSE call.flux = [value |-> FZero, asymmetry |-> FZero]

\* C12, witness: the sample at the vertex (k_min, c_max, h_min).
C12_SampledAtUpperCosine ==
  /\ call.op = "reference" /\ call.pc = "done"
  /\ f.reference.table # NULL
  /\ call.initial.energy = Tables(f.reference.table).k_min
  /\ call.initial.elevation = 90
  /\ call.initial.height = Tables(f.reference.table).h_min
  /\ FPos(call.flux.value)

\* C12, as stated: at the vertex (k_min, c_max, h_min) the value is
\* data[0] + data[1] and the asymmetry (data[0] - data[1]) / (data[0] + data[1]).
C12_UpperCosineIsFirstCell ==
  (/\ call.op = "reference"
   /\ f.reference.table # NULL
   /\ call.initial.energy = Tables(f.reference.table).k_min
   /\ call.initial.elevation = 90
   /\ call.initial.height = Tables(f.reference.table).h_min) =>
    LET d0 == Tables(f.reference.table).data[1]
        d1 == Tables(f.reference.table).data[2]
    IN /\ call.flux.value = <<d0 + d1, 1>>
       /\ call.flux.asymmetry[1] * (d0 + d1)
            = (d0 - d1) * call.flux.asymmetry[2]

\* C13: mulder_initialise records the handlers of the driver and of the
\* tracing library and puts mulder's adapters in their place, a message a
\* library raises from then on reaches mulder_error, and mulder_finalise
\* called next gives both libraries the handlers they had before that
\* mulder_initialise, the first time and every later time.
C13_HandlersRestored ==
  /\ \A i \in 1..Len(history) :
       LET now == IF i = Len(history) THEN handlers
                  ELSE [pumas |-> history[i + 1].pumas,
                        turtle |-> history[i + 1].turtle]
       IN  /\ history[i].name = "mulder_initialise"
              => /\ now.pumas = "pumas_error"
                 /\ now.turtle = "turtle_error"
           /\ (i > 1 /\ history[i].name = "mulder_finalise"
                     /\ history[i - 1].name = "mulder_initialise")
              => /\ now.pumas = history[i - 1].pumas
                 /\ now.turtle = history[i - 1].turtle
  /\ Len(history) > 0 /\ history[Len(history)].name = "mulder_initialise"
     => /\ handlers.pumas_default_error = history[Len(history)].pumas
        /\ handlers.turtle_default_error = history[Len(history)].turtle
  /\ Len(errors) = Cardinality({i \in 1..Len(history) :
       \/ history[i].name = "pumas failure" /\ history[i].pumas = "pumas_error"
       \/ history[i].name = "turtle failure"
          /\ history[i].turtle = "turtle_error"})

\* The pair was made twice on libraries that started with one handler and with
\* none, and both are back.
C13_PairRepeated ==
  /\ Len(history) = 4
  /\ history[1].name = "mulder_initialise"
  /\ history[2].name = "mulder_finalise"
  /\ history[3].name = "mulder_initialise"
  /\ history[4].name = "mulder_finalise"
  /\ handlers.pumas = "handler_b"
  /\ handlers.turtle = NULL

\* C14: the anchors and the steppers are those of the last rebuild: with zmax
\* the largest zmax over the layers (-DBL_MAX without layers) and the support
\* the rebuild cached put in ascending order, ztop = zref = zref_min when
\* zmax <= zref_min, ztop = zref = zmax when zref_min < zmax <= zref_max, and
\* ztop = zmax, zref = zref_max otherwise; the layered stepper has its flat
\* surface at ztop below the one at ZMAX, the opensky stepper its floor at zref.
C14_Anchors ==
  LET swap == NLt(f.zref_max, f.zref_min)
      zref_min == IF swap THEN f.zref_max ELSE f.zref_min
      zref_max == IF swap THEN f.zref_min ELSE f.zref_max
      zmax == LayersZmax(geometry.layers, 1, MINUS_DBL_MAX)
      n == Len(geometry.layers)
  IN  /\ f.zmax = zmax
      /\ NLe(zmax, zref_min) => f.ztop = zref_min /\ f.zref = zref_min
      /\ NLt(zref_min, zmax) /\ NLe(zmax, zref_max)
         => f.ztop = zmax /\ f.zref = zmax
      /\ NLt(zref_max, zmax) => f.ztop = zmax /\ f.zref = zref_max
      /\ Len(f.layers_stepper) = n + 3
      /\ f.layers_stepper[n + 2] = f.ztop
      /\ f.layers_stepper[n + 3] = ZMAX
      /\ f.opensky_stepper = <<f.zref, ZMAX>>

\* A rebuild on a support written upside down, the layers ending inside it.
C14_RebuiltOnSwappedSupport ==
  /\ f.builds = 1
  /\ f.reference.height_min = Num(200)
  /\ f.reference.height_max = Num(0)
  /\ f.zmax = Num(100)
  /\ f.ztop = Num(100)
  /\ f.zref = Num(100)

C16_RegimesAscend ==
  LET Regime(cx) ==
        IF cx.energy_loss = "STRAGGLED" /\ cx.scattering = "MIXED" THEN 1
        ELSE IF cx.energy_loss = "MIXED" /\ cx.scattering = "MIXED" THEN 2
        ELSE IF cx.energy_loss = "MIXED" /\ cx.scattering = "DISABLED" THEN 3
        ELSE 0
      ascent == call.ascent
      cap == NSub(f.reference.energy_max, FLT_EPSILON)
  IN  (f.mode = "DETAILED" /\ call.op \in {"flux", "transport"}) =>
        /\ \A i \in 1..Len(ascent) :
             /\ Regime(ascent[i]) \in 1..3
             /\ ascent[i].direction = "BACKWARD"
             /\ \A j \in 1..Len(ascent) :
                  i < j => /\ Regime(ascent[i]) < Regime(ascent[j])
                           /\ NLt(ascent[i].limit_energy,
                                  ascent[j].limit_energy)
        /\ (call.pc = "ascend" /\ ascent # <<>>) =>
             /\ NLt(call.s.energy, cap)
             /\ context = BackwardContext(context, f, call.s)
             /\ Regime(context) > Regime(ascent[Len(ascent)])
             /\ NLt(ascent[Len(ascent)].limit_energy, context.limit_energy)
        /\ (/\ call.op = "transport" /\ call.pc = "done"
            /\ call.abandoned = <<"energy limit">>) =>
             /\ NLe(cap, call.s.energy)
             /\ call.state = ZeroState

\* C16, witness: an ascent went through the three regimes and was abandoned
\* on the energy limit of the last one.
C16_ThreeRegimesThenAbandoned ==
  /\ f.mode = "DETAILED"
  /\ call.op = "transport" /\ call.pc = "done"
  /\ Len(call.ascent) = 3
  /\ call.ascent[1].energy_loss = "STRAGGLED"
  /\ call.ascent[3].scattering = "DISABLED"
  /\ call.abandoned = <<"energy limit">>

\* C17: when the ascent is needed (observation height < ztop - FLT_EPSILON)
\* the first driver run of a transport goes backward in the layered geometry
\* with the energy limit as its only event, and by mode, K being the kinetic
\* energy of the observation: CSDA, loss CSDA, no scattering, limit
\* reference.energy_max; Mixed, loss mixed, no scattering, limit
\* reference.energy_max; Detailed, K <= 10 - eps: loss straggled, scattering
\* mixed, limit 10 GeV; 10 - eps < K <= 100 - eps: loss mixed, scattering
\* mixed, limit 100 GeV; K > 100 - eps: loss mixed, no scattering, limit
\* reference.energy_max.
C17_FirstRunOfTheAscent ==
  (/\ call.op \in {"flux", "transport"}
   /\ call.starts # <<>>
   /\ NLt(call.initial.height, NSub(f.ztop, FLT_EPSILON))) =>
    LET K == call.initial.energy
        low == NLe(K, NSub(Num(10), FLT_EPSILON))
        mid == ~low /\ NLe(K, NSub(Num(100), FLT_EPSILON))
        first == IF call.ascent = <<>> THEN context ELSE call.ascent[1]
    IN /\ call.ascent = <<>> => call.pc = "ascend"
       /\ first.direction = "BACKWARD"
       /\ first.medium = "layers_geometry"
       /\ first.event = "LIMIT_ENERGY"
       /\ first.energy_loss =
            (IF f.mode = "CSDA" THEN "CSDA"
             ELSE IF f.mode = "DETAILED" /\ low THEN "STRAGGLED"
             ELSE "MIXED")
       /\ first.scattering =
            (IF f.mode = "DETAILED" /\ (low \/ mid) THEN "MIXED"
             ELSE "DISABLED")
       /\ first.limit_energy =
            (IF f.mode = "DETAILED" /\ low THEN Num(10)
             ELSE IF f.mode = "DETAILED" /\ mid THEN Num(100)
             ELSE f.reference.energy_max)

\* C17, witness: the second transport of an untagged flux in Detailed mode, a
\* geomagnet attached, has made its first run from 10 GeV: mixed loss, mixed
\* scattering, up to 100 GeV.
C17_SecondAscentFromTenGeV ==
  /\ call.op = "flux" /\ f.mode = "DETAILED"
  /\ Len(call.starts) = 2
  /\ call.initial.energy = Num(10)
  /\ Len(call.ascent) = 1
  /\ call.ascent[1].energy_loss = "MIXED"
  /\ call.ascent[1].scattering = "MIXED"
  /\ call.ascent[1].limit_energy = Num(100)

\* C18: when the forward CSDA step of a transport starts at proper time t0,
\* energy E0 and weight w0, and the driver stops on a medium event within
\* 1E-04 m of zref after a time t_step at energy E_end, the transport returns
\* the height zref, the proper time is t0 - t_step and the weight
\* w0 * s1 / s0, s0 and s1 being the CSDA stopping powers of the atmosphere at
\* E0 and E_end; when s0 <= 0 or s1 <= 0 the transport is abandoned and
\* returns the weight 0.  (Read on the transports whose driver runs are
\* recorded: CSDA mode without a geomagnet.)
C18_ForwardStep ==
  (/\ call.op = "transport" /\ call.pc = "done"
   /\ det.valid /\ det.fwd # <<>>
   /\ det.fwd[1].rc = "SUCCESS" /\ det.fwd[1].event = "MEDIUM"
   /\ ~FarFrom(det.fwd[1].height, f.zref)) =>
    LET ascended == det.bwd # <<>>
        t0 == IF ascended THEN det.bwd[1].time ELSE 0
        E0 == IF ascended THEN det.bwd[1].energy ELSE call.initial.energy
        w0 == IF ascended THEN det.bwd[1].weight ELSE FOne
        t_step == det.fwd[1].time
        E_end == det.fwd[1].energy
        s0 == StoppingPower(E0)
        s1 == StoppingPower(E_end)
        time == t0 - t_step
        weight == FMul(w0, FDiv(s1, s0))
    IN IF FPos(s0) /\ FPos(s1)
       THEN /\ call.abandoned = <<>>
            /\ call.state.height = f.zref
            /\ call.state.energy = E_end
            /\ call.s.time = time
            /\ call.s.weight = weight
            /\ call.state.weight = FMul(DecayProbability(time), weight)
       ELSE /\ call.abandoned = <<"stopping power">>
            /\ call.state.weight = FZero
            /\ call.state = State(MULDER_ANY, Num(0), 0, Num(0), FZero)

\* C18, witness: a transport went up to ztop, gaining energy, then down to
\* zref, losing some of it, and returned a weight other than 1.
C18_UpThenDown ==
  /\ call.op = "transport" /\ call.pc = "done"
  /\ det.valid /\ det.bwd # <<>> /\ det.fwd # <<>>
  /\ det.bwd[1].energy = Num(100)
  /\ det.fwd[1].energy = Num(10)
  /\ det.fwd[1].time = 1
  /\ call.abandoned = <<>>
  /\ call.state.height = f.zref
  /\ call.state.weight # FOne

\* C19 (amended): in every intersect and grammage call, and in every flux and
\* transport call that is not rejected on entry, use_external_layer is, from
\* the first driver run to the return and in both transports of an untagged
\* flux with a geomagnet, (observation height >= ztop + FLT_EPSILON), ztop
\* being the one the stepper check of that call left.
C19_ExternalLayerLatched ==
  LET rejected ==
        /\ call.op \in {"flux", "transport"}
        /\ \/ NLe(call.initial.energy, Num(0))
           \/ /\ call.op = "transport"
              /\ call.initial.pid = MULDER_ANY
              /\ f.mode = "CSDA"
              /\ geometry.geomagnet # NULL
  IN (call.op \in {"flux", "transport", "intersect", "grammage"}
      /\ ~rejected) =>
       /\ f.ztop = RebuildSteppers(f, geometry).ztop
       /\ f.use_external_layer =
            NLe(NAdd(f.ztop, FLT_EPSILON), call.initial.height)

\* C19, witness: an untagged flux with a geomagnet, called from 125 m after
\* the support was raised so that ztop went from 100 m to 150 m, is in its
\* second transport with the flag unset.
C19_SecondTransportBelowRaisedZtop ==
  /\ call.op = "flux" /\ call.stale
  /\ Len(call.starts) = 2
  /\ call.initial.height = Num(125)
  /\ geometry.layers # <<>>
  /\ f.ztop = Num(150)
  /\ ~f.use_external_layer

\* C19, as stated: every flux, transport, intersect and grammage call assigns
\* the flag.
C19_ExternalLayerAssignedInEveryCall ==
  call.op \in {"flux", "transport", "intersect", "grammage"} =>
    f.use_external_layer =
      NLe(NAdd(f.ztop, FLT_EPSILON), call.initial.height)

\* C20: in a flux or transport call the backward ascent never runs with
\* use_external_layer set, the ascent being made from below ztop - FLT_EPSILON
\* and the flag being set from ztop + FLT_EPSILON on: during the ascent the
\* layered locator gives no medium from ztop up, and a track that goes up
\* leaves the geometry at ztop.
C20_AscentBelowClosedTop ==
  (call.op \in {"flux", "transport"} /\ call.pc = "ascend") =>
    /\ ~f.use_external_layer
    /\ NLt(call.initial.height, NSub(f.ztop, FLT_EPSILON))
    /\ ~NLe(NAdd(f.ztop, FLT_EPSILON), call.initial.height)
    /\ context.medium = "layers_geometry"
    /\ \A height \in Heights \cup {f.ztop, ZMAX} :
         NLe(f.ztop, height) =>
           layers_geometry(f, geometry, height) = NoMedium
    /\ StepperIndex(f.layers_stepper, f.ztop) = Len(geometry.layers) + 2
    /\ GoesUp(context, call.s) =>
         LeaveAt(context, f, geometry, call.s.height, TRUE) = f.ztop

\* C20, witness: an ascent from the ground under a layer, looking up, is in
\* its second run, below an atmosphere that ends at ztop.
C20_AscentGoingUp ==
  /\ call.op = "transport" /\ call.pc = "ascend"
  /\ Len(call.ascent) = 1
  /\ geometry.layers # <<>>
  /\ call.s.height = Num(0)
  /\ GoesUp(context, call.s)
  /\ LeaveAt(context, f, geometry, call.s.height, TRUE) = Num(100)

\* C21: the layered locator gives, for the stepper index i and N layers, the
\* medium of layer i - 1 when 1 <= i <= N, the atmosphere when i = N + 1, the
\* atmosphere when i = N + 2 if and only if use_external_layer is set, and no
\* medium for any other index; the opensky locator gives the atmosphere for
\* the index 1 and no medium for any other index.  The first medium of a line
\* of sight is the one of the index of its start.
C21_LocatorMapping ==
  LET N == Len(geometry.layers)
      Layered(i) ==
        IF 1 <= i /\ i <= N THEN [kind |-> "layer", index |-> i - 1]
        ELSE IF i = N + 1 THEN [kind |-> "atmosphere", index |-> -1]
        ELSE IF i = N + 2 /\ f.use_external_layer
        THEN [kind |-> "atmosphere", index |-> -1]
        ELSE [kind |-> "NULL", index |-> -1]
      Opensky(i) ==
        IF i = 1 THEN [kind |-> "atmosphere", index |-> -1]
        ELSE [kind |-> "NULL", index |-> -1]
  IN  /\ \A height \in Heights \cup {NSub(ZMIN, Num(1)), ZMIN, f.ztop, ZMAX} :
           /\ layers_geometry(f, geometry, height)
                = Layered(StepperIndex(f.layers_stepper, height))
           /\ opensky_geometry(f, geometry, height)
                = Opensky(StepperIndex(f.opensky_stepper, height))
      /\ StepperIndex(f.layers_stepper, NSub(ZMIN, Num(1))) = 0
      /\ StepperIndex(f.layers_stepper, ZMAX) = N + 3
      /\ (call.op = "intersect" /\ call.pc = "done" /\ errors = <<>>) =>
           call.runs[1]
             = Layered(StepperIndex(f.layers_stepper, call.initial.height))

\* C21, witness: a line of sight that starts above ztop, over a layer, starts
\* in the atmosphere of the slab N + 2.
C21_SightFromExternalLayer ==
  /\ call.op = "intersect" /\ call.pc = "done" /\ errors = <<>>
  /\ Len(geometry.layers) = 1
  /\ f.use_external_layer
  /\ StepperIndex(f.layers_stepper, call.initial.height) = 3
  /\ call.runs[1] = AtmosphereMedium

\* C22: every driver run of an intersect or grammage call is made with
\* use_geomagnet unset, and every driver run of a flux or transport call with
\* use_geomagnet set exactly when a geomagnet is attached to the geometry at
\* the start of that call (the fluxmeter's current geomagnet being then the
\* attached one), whatever the calls before.
C22_FieldFollowsTheCall ==
  /\ call.op \in {"intersect", "grammage"} => ~f.use_geomagnet
  /\ (call.op \in {"flux", "transport"} /\ call.starts # <<>>) =>
       /\ f.current_geomagnet = geometry.geomagnet
       /\ f.use_geomagnet = (geometry.geomagnet # NULL)

\* C22, witness: a grammage call is about to run the driver without field on
\* a fluxmeter that a call before left with the field of the attached
\* geomagnet.
C22_GrammageAfterFieldCall ==
  /\ call.op = "grammage" /\ call.pc = "step"
  /\ geometry.geomagnet # NULL
  /\ f.current_geomagnet = geometry.geomagnet
  /\ ~f.use_geomagnet

\* C23, as stated: in every driver run of the backward ascent, in every mode,
\* the energy limit is at most reference.energy_max, and a state returned
\* after an ascent that started within reference.energy_max has a kinetic
\* energy of at most reference.energy_max.
C23_LimitWithinReference ==
  call.op \in {"flux", "transport"} =>
    /\ \A i \in 1..Len(call.ascent) :
         NLe(call.ascent[i].limit_energy, f.reference.energy_max)
    /\ call.pc = "ascend" =>
         NLe(context.limit_energy, f.reference.energy_max)
    /\ (/\ call.pc = "done" /\ call.ascent # <<>> /\ call.abandoned = <<>>
        /\ NLe(call.initial.energy, f.reference.energy_max)) =>
         NLe(call.state.energy, f.reference.energy_max)

\* C24: the backward loop of a flux or transport call ends: the driver
\* reporting the energy limit only at the limit, an ascent runs it at most
\* once in CSDA and Mixed modes and at most three times in Detailed mode, and
\* a call that is in the loop leaves it.
C24_AscentEnds ==
  /\ [](call.op \in {"flux", "transport"} =>
          Len(call.ascent) <= (IF f.mode = "DETAILED" THEN 3 ELSE 1))
  /\ (call.pc = "ascend") ~> (call.pc # "ascend")

\* C24, witness: an ascent in Detailed mode has run the driver three times
\* and has left the geometry at ztop.
C24_ThreeRunsToZtop ==
  /\ f.mode = "DETAILED"
  /\ call.op = "transport" /\ call.pc = "done"
  /\ Len(call.ascent) = 3
  /\ call.abandoned = <<>>
  /\ call.s.energy = Num(100)

\* ---------------------------------------------------------------------------
\* C25: every driver run made by intersect or grammage uses the same driver
\* configuration (direction forward, energy loss disabled, scattering
\* disabled, event mask medium, layered locator), whatever fluxmeter calls and
\* transport modes preceded it.
C25_SameSightConfiguration ==
  (call.op \in {"grammage", "intersect"} /\ call.runs # <<>>) =>
    /\ context.medium = "layers_geometry"
    /\ context.direction = "FORWARD"
    /\ context.energy_loss = "DISABLED"
    /\ context.scattering = "DISABLED"
    /\ context.event = "MEDIUM"

\* ---------------------------------------------------------------------------
\* C26: the results of intersect, grammage and whereami for a given position
\* and direction depend only on the geometry: with a reference flux of
\* another height_min or height_max attached, the same query gives the same
\* result.  Read on intersect: the result of the call is the one the same
\* query gives on this fluxmeter with the default reference attached.
C26_SightIgnoresTheSupport ==
  (call.op = "intersect" /\ call.pc = "done" /\ errors = <<>>) =>
    Intersection(geometry,
                 Traversal(SightContext(context),
                           SightFluxmeter(
                             [f EXCEPT !.reference = default_reference],
                             geometry, call.initial.height),
                           geometry,
                           SightState(call.initial.height,
                                      call.initial.elevation)))
      = [layer |-> call.layer, height |-> call.position]

\* ---------------------------------------------------------------------------
\* C27: mulder_fluxmeter_transport on an untagged state: in CSDA mode with a
\* geomagnet attached it reports "bad pid" and returns the all-zero state
\* without any driver run; in CSDA mode without geomagnet it transports the
\* state as a muon and returns pid = untagged; in Mixed or Detailed mode it
\* draws exactly one uniform number u from the fluxmeter's prng, uses charge
\* -1 if u <= 0.5 and +1 otherwise, doubles the weight, and returns the pid of
\* the drawn charge.
C27_UntaggedTransportAsStated ==
  (call.op = "transport" /\ call.pc = "done"
   /\ call.initial.pid = MULDER_ANY) =>
     IF f.mode = "CSDA" /\ geometry.geomagnet # NULL
     THEN /\ errors = <<"bad pid (0)">>
          /\ call.state = ZeroState
          /\ call.runs = <<>>
     ELSE IF f.mode = "CSDA"
     THEN /\ \A i \in 1..Len(call.starts) : call.starts[i].charge = -1
          /\ call.state.pid = MULDER_ANY
     ELSE /\ Len(call.draws) = 1
          /\ Len(call.starts) = 1
          /\ call.starts[1].charge = (IF call.draws[1] THEN -1 ELSE 1)
          /\ call.starts[1].weight = FInt(2)
          /\ call.state.pid = (IF call.draws[1] THEN MULDER_MUON
                               ELSE MULDER_ANTIMUON)

\* C27 (amended): the same for a kinetic energy > 0, the pid of the drawn
\* charge being returned by the transports that are not abandoned (an
\* abandoned one returns the all-zero state); with a kinetic energy <= 0 the
\* call is rejected by init_event before the draw: "bad kinetic energy", no
\* number drawn, no driver run, the all-zero state.
C27_UntaggedTransport ==
  (call.op = "transport" /\ call.pc = "done"
   /\ call.initial.pid = MULDER_ANY) =>
     IF f.mode = "CSDA" /\ geometry.geomagnet # NULL
     THEN /\ errors = <<"bad pid (0)">>
          /\ call.state = ZeroState
          /\ call.runs = <<>>
          /\ call.draws = <<>>
     ELSE IF NLe(call.initial.energy, Num(0))
     THEN /\ Len(errors) = 1
          /\ call.state = ZeroState
          /\ call.runs = <<>>
          /\ call.draws = <<>>
     ELSE IF f.mode = "CSDA"
     THEN /\ call.draws = <<>>
          /\ Len(call.starts) = 1
          /\ call.starts[1].charge = -1
          /\ call.starts[1].weight = FOne
          /\ call.state.pid = MULDER_ANY
     ELSE /\ Len(call.draws) = 1
          /\ Len(call.starts) = 1
          /\ call.starts[1].charge = (IF call.draws[1] THEN -1 ELSE 1)
          /\ call.starts[1].weight = FInt(2)
          /\ IF call.abandoned # <<>> \/ errors # <<>>
             THEN call.state = ZeroState
             ELSE call.state.pid = (IF call.draws[1] THEN MULDER_MUON
                                    ELSE MULDER_ANTIMUON)

\* A Detailed transport of an untagged state that drew u > 0.5 and came back
\* as an antimuon.
C27_DrawnAntimuon ==
  /\ call.op = "transport" /\ call.pc = "done"
  /\ call.initial.pid = MULDER_ANY
  /\ f.mode = "DETAILED"
  /\ call.draws = <<FALSE>>
  /\ call.runs # <<>>
  /\ call.state.pid = MULDER_ANTIMUON

\* ---------------------------------------------------------------------------
\* C28: whenever the atmosphere adapter hands a magnetic field to the driver,
\* that field was computed from the geomagnet attached at the start of the
\* current call, at a position no further than 1 km from the particle's
\* current position: no field of a previous geomagnet is ever used.
C28_FieldOfTheAttachedGeomagnet ==
  (call.pc = "run" /\ call.magnet # <<>>) =>
    /\ call.magnet[1].snapshot = call.snapshot
    /\ ~Beyond(call.position, call.magnet[1].position)

\* ---------------------------------------------------------------------------
\* C29: with geomagnet disabled, the atmosphere adapter returns as recommended
\* step lambda / |sin(elevation)| floored at lambda / 0.1, i.e. the larger of
\* the two, lambda being the scale height of the shell of the current
\* altitude.  (Read where the sine is not 0.)
C29_StepFlooredAtTenLambda ==
  (call.pc = "run" /\ ~f.use_geomagnet /\ call.step # <<>>
   /\ SinElevation(call.elevation) # FZero) =>
     LET lambda == us_standard_lambda(call.position)
         slant == FDiv(lambda, <<Abs(SinElevation(call.elevation)[1]),
                                 SinElevation(call.elevation)[2]>>)
         ten == FMul(FInt(10), lambda)
     IN call.step[1] = (IF FLess(slant, ten) THEN ten ELSE slant)

\* C29 (amended): with geomagnet disabled, the recommended step is
\* lambda / max(|sin(elevation)|, 0.1): the smaller of lambda / |sin| and
\* lambda / 0.1, that is lambda / |sin| capped at 10 lambda, and 10 lambda for
\* a horizontal direction.
C29_StepCappedAtTenLambda ==
  (call.pc = "run" /\ ~f.use_geomagnet /\ call.step # <<>>) =>
     LET lambda == us_standard_lambda(call.position)
         sine == <<Abs(SinElevation(call.elevation)[1]),
                   SinElevation(call.elevation)[2]>>
         ten == FMul(FInt(10), lambda)
     IN /\ ~FLess(ten, call.step[1])
        /\ sine # FZero => ~FLess(FDiv(lambda, sine), call.step[1])
        /\ \/ call.step[1] = ten
           \/ sine # FZero /\ call.step[1] = FDiv(lambda, sine)

\* The callback of a horizontal track in the third shell: 10 lambda.
C29_HorizontalAtTwentyKilometres ==
  /\ call.pc = "run" /\ ~f.use_geomagnet
  /\ call.position = 20000 /\ call.elevation = 0
  /\ call.step = <<FInt(636143040)>>

\* ---------------------------------------------------------------------------
\* C30: for a table with n_k >= 2, n_c >= 2 and n_h >= 1, every lookup that
\* is not rejected with a zero result reads its eight corner cells at float
\* offsets within [0, 2 * n_k * n_c * n_h), the upper neighbours being clamped
\* to the last grid index.
C30_CornersWithinTheTable ==
  (call.op = "table" /\ call.pc = "done") =>
    \A offset \in call.cells :
      /\ 0 <= offset
      /\ offset < 2 * Tables(f.reference.table).n_k
                    * Tables(f.reference.table).n_c
                    * Tables(f.reference.table).n_h

====
